---------------------------- MODULE Spec2Model ----------------------------
(***************************************************************************)
(* A model of chunkah's layer packing (src/packing.rs, pack_components in  *)
(* src/cmd_build.rs), of its stability model (calculate_stability in       *)
(* src/utils.rs) and of its label parsing (parse_key_value_pairs in        *)
(* src/cmd_build.rs).                                                      *)
(*                                                                         *)
(* Numbers.  A stability is an f64 in [0, 1].  The packer only multiplies  *)
(* stabilities and multiplies them by sizes, so the model draws them from  *)
(* the quarters 0, 1/4, .., 1 and keeps them as integers over the common  *)
(* denominator StabOne = 4^MaxItems: every product of at most MaxItems of  *)
(* them is an integer over that denominator, and is exact in f64 as well.  *)
(* calculate_stability divides and takes an exponential; there a real is   *)
(* kept in fixed point with FracBits fractional bits.                      *)
(*                                                                         *)
(* Indices and group ids are 0-based as in the source; the element with    *)
(* index i of a vector v is v[i + 1].  An Option is a sequence of length 0 *)
(* (None) or 1 (Some).                                                     *)
(***************************************************************************)
EXTENDS Integers, Sequences, FiniteSets, TLC

VARIABLES
    \* calculate_packing
    items,          \* the input slice of PackItem
    max_groups,     \* the max_groups argument
    tie,            \* how the BinaryHeap orders candidates of equal loss
    groups,         \* Vec<Option<PackGroup>>
    heap,           \* merge_candidates, in the order pushed
    active_count,   \* active_count
    result,         \* the returned Vec<PackGroup>
    pc,             \* "start", "loop", "done"
    \* pack_components and the layers written from its result
    components,     \* HashMap<String, Component>: name -> component
    max_layers,     \* args.max_layers
    order,          \* the order components.into_iter() yields the names in
    layers,         \* the returned Vec<(String, Component)>
    panicked,       \* an expect("packing returned invalid index") failed
    emitted,        \* per layer written, path -> mtime in the tar entry
    prev_layers,    \* Some(layers of the run before this one), or None
    lpc,            \* "start", "packed", "written"
    \* calculate_stability
    changelog_times,
    buildtime,
    now,
    stab_result,    \* Some(the Result returned), or None before the call
    \* parse_key_value_pairs
    pairs,          \* the pairs argument
    base_map,       \* the map argument
    parsed,         \* Some(the Result returned), or None before the call
    \* main and run: the process
    is_pid1,        \* the process is PID 1 of its container
    args_output,    \* args.output is Some(path)
    config_src,     \* "file", "str" or "default": where the base config is from
    epoch_given,    \* args.source_date_epoch is Some
    stage,          \* the step main is about to take
    passed,         \* the steps that returned without an error
    handler_set,    \* ctrlc::set_handler has installed the SIGINT handler
    handler_pending,\* the handler thread has a SIGINT to act on
    sigints,        \* the SIGINTs received: the stage and what the kernel did
    output_created, \* File::create(output_path) has succeeded
    file_bytes,     \* bytes written to the output file
    stdout_bytes,   \* bytes written to stdout
    exit,           \* Some(how the process ended), or None while it runs
    \* canonicalize_parent_path
    file_map,       \* files, the FileMap: path -> FileInfo
    cache,          \* the cache: path -> canonical path
    canon_path,     \* the path argument of the last call
    canon_result,   \* Some(the outcome of the last call), or None
    first_result,   \* Some(the outcome of the first call), once the rootfs differs
    call_stack,     \* the calls of canonicalize_dir_path in progress
    ret,            \* Some(the path the last call of it returned)
    looked_up,      \* the paths whose FileMap entry the call has read
    first_looked_up,\* looked_up of the first call, once the rootfs differs
    cpc,            \* "ready", "first", "returned", "warm", "toggled", "cold", "again", "done_.."
    \* BigfilesRepo::load
    big_files,      \* files, the FileMap handed to load
    default_mtime_clamp, \* the clamp handed to load
    big_repo,       \* Some(the BigfilesRepo load returned), or None
    created,        \* the "bigfile component created" events of load, in order
    bpc,            \* "ready", "loaded"
    \* RpmRepo
    packages,       \* the packages, in the order packages.into_values() yields
    rpm_now,        \* the now argument of load_from_packages
    rpm_repo,       \* Some(the RpmRepo loaded), or None
    query,          \* Some(the last claims_for_path call and what it returned)
    rpc,            \* "ready", "loaded", "queried"
    \* AlpmComponentsRepo::load_from_db
    alpm_entries,   \* the entries of the local database, in the order read
    alpm_now,       \* the now argument
    alpm_repo,      \* Some(the Result load_from_db returned), or None
    alpm_prev,      \* Some(the entries and the Result of the load before), or None
    apc,            \* "ready", "loaded"
    \* LocalAlpmDbFile::from_str
    db_text,        \* the lines of the desc or files text
    db_file,        \* Some(the Result from_str returned), or None
    dpc,            \* "ready", "parsed"
    \* calculate_merge_loss
    loss_a,         \* the group a
    loss_b,         \* the group b
    loss_out,       \* Some(the f64 returned), or None
    mpc             \* "ready", "returned"

packVars == <<items, max_groups, groups, heap, active_count, result, pc>>

layerVars == <<components, max_layers, order, layers, panicked, emitted,
               prev_layers, lpc>>

stabVars == <<changelog_times, buildtime, now, stab_result>>

kvVars == <<pairs, base_map, parsed>>

runVars == <<is_pid1, args_output, config_src, epoch_given, stage, passed,
             handler_set, handler_pending, sigints, output_created,
             file_bytes, stdout_bytes, exit>>

canonVars == <<file_map, cache, canon_path, canon_result, first_result,
               call_stack, ret, looked_up, first_looked_up, cpc>>

bigVars == <<big_files, default_mtime_clamp, big_repo, created, bpc>>

rpmVars == <<packages, rpm_now, rpm_repo, query, rpc>>

alpmVars == <<alpm_entries, alpm_now, alpm_repo, alpm_prev, apc,
              db_text, db_file, dpc>>

lossVars == <<loss_a, loss_b, loss_out, mpc>>

providerVars == <<canonVars, bigVars, rpmVars, alpmVars, lossVars>>

vars == <<tie, packVars, layerVars, stabVars, kvVars, runVars, providerVars>>

--------------------------------------------------------------------------
(* Bounds *)

\* the largest number of items (components) handed to the packer
MaxItems == 3

\* the largest number of changelog entries of a package
MaxChangelog == 2

\* the largest number of --label / --annotation pairs
MaxPairs == 3

\* 1.0 in the fixed point calculate_stability's reals are kept in
FixedOne == 10000

\* the significant bits of a float (an f64 has 53)
MantissaBits == 3

--------------------------------------------------------------------------
(* Helpers *)

Min(S) == CHOOSE x \in S : \A y \in S : x <= y
Max(S) == CHOOSE x \in S : \A y \in S : x >= y

RECURSIVE Pow(_, _)
Pow(b, e) == IF e = 0 THEN 1 ELSE b * Pow(b, e - 1)

\* the denominator of every stability of the packer: 1.0 is StabOne
StabOne == Pow(4, MaxItems)

\* the stabilities of input items: 0, 1/4, 1/2, 3/4 and 1
ItemStabilities == {(k * StabOne) \div 4 : k \in 0..4}

\* the sizes of input items
ItemSizes == {1, 10}

PackItems == [size : ItemSizes, stability : ItemStabilities]

ItemSeqs == UNION {[1..n -> PackItems] : n \in 0..MaxItems}

None == <<>>
Some(x) == <<x>>
IsNone(o) == Len(o) = 0
IsSome(o) == Len(o) = 1
Unwrap(o) == o[1]

\* a * b for two stabilities over StabOne
StabMul(a, b) == (a * b) \div StabOne

--------------------------------------------------------------------------
(* src/packing.rs *)

\* the group of item i alone
SingleGroup(its, i) ==
    [indices |-> <<i>>, size |-> its[i + 1].size, stability |-> its[i + 1].stability]

\* PackGroup::expected_value, over StabOne
ExpectedValue(g) == g.size * g.stability

\* calculate_merge_loss without its ev_merged
CalculateMergeLoss_Separate(a, b) == ExpectedValue(a) + ExpectedValue(b)

\* calculate_merge_loss, over StabOne
CalculateMergeLoss(a, b) ==
    LET ev_separate == ExpectedValue(a) + ExpectedValue(b)
        combined_size == a.size + b.size
        combined_prob == StabMul(a.stability, b.stability)
        ev_merged == combined_size * combined_prob
    IN  ev_separate - ev_merged

MergeCandidate(gs, a, b) ==
    [loss |-> CalculateMergeLoss(Unwrap(gs[a + 1]), Unwrap(gs[b + 1])),
     group_a_id |-> a, group_b_id |-> b]

\* the candidates pushed by the loops over i and j, from (i, j) on
RECURSIVE InitialCandidates(_, _, _)
InitialCandidates(gs, i, j) ==
    IF i >= Len(gs) THEN <<>>
    ELSE IF j >= Len(gs) THEN InitialCandidates(gs, i + 1, i + 2)
    ELSE <<MergeCandidate(gs, i, j)>> \o InitialCandidates(gs, i, j + 1)

\* a pop that takes a candidate of greatest loss
PopIndex_Greatest(h, t) ==
    LET greatest == Max({h[k].loss : k \in DOMAIN h})
        ties == {k \in DOMAIN h : h[k].loss = greatest}
    IN  IF t = "first" THEN Min(ties) ELSE Max(ties)

\* BinaryHeap::pop under MergeCandidate's reversed Ord: a candidate of least
\* loss.  Ord compares the loss alone, so among candidates of equal loss the
\* heap's layout decides; the model fixes one rule per run (tie): the one
\* pushed first or the one pushed last.
PopIndex(h, t) ==
    LET least == Min({h[k].loss : k \in DOMAIN h})
        ties == {k \in DOMAIN h : h[k].loss = least}
    IN  IF t = "first" THEN Min(ties) ELSE Max(ties)

RemoveAt(s, k) == SubSeq(s, 1, k - 1) \o SubSeq(s, k + 1, Len(s))

\* a merge that pushes no candidate for the group it made
NewCandidates_None(gs, new_id, other_id) == <<>>

\* the candidates pushed after a merge: the new group against every other
\* group that is still active, in id order
RECURSIVE NewCandidates(_, _, _)
NewCandidates(gs, new_id, other_id) ==
    IF other_id >= Len(gs) THEN <<>>
    ELSE IF other_id # new_id /\ IsSome(gs[other_id + 1])
         THEN <<MergeCandidate(gs, new_id, other_id)>>
              \o NewCandidates(gs, new_id, other_id + 1)
         ELSE NewCandidates(gs, new_id, other_id + 1)

\* a merged group that keeps the stability of g_a
MergedGroup_StabilityOfA(g_a, g_b) ==
    [indices |-> g_a.indices \o g_b.indices,
     size |-> g_a.size + g_b.size,
     stability |-> g_a.stability]

\* a merged group that keeps only the indices of g_a
MergedGroup_DropsB(g_a, g_b) ==
    [indices |-> g_a.indices,
     size |-> g_a.size + g_b.size,
     stability |-> StabMul(g_a.stability, g_b.stability)]

\* the group made of g_a and g_b
MergedGroup(g_a, g_b) ==
    [indices |-> g_a.indices \o g_b.indices,
     size |-> g_a.size + g_b.size,
     stability |-> StabMul(g_a.stability, g_b.stability)]

\* one iteration of the merge loop, on st = [groups, heap, active, broke]
MergeStep(st, t) ==
    IF Len(st.heap) = 0 THEN [st EXCEPT !.broke = TRUE]
    ELSE
    LET k == PopIndex(st.heap, t)
        merge_op == st.heap[k]
        rest == RemoveAt(st.heap, k)
        a == merge_op.group_a_id
        b == merge_op.group_b_id
    IN  IF IsNone(st.groups[a + 1]) \/ IsNone(st.groups[b + 1])
        THEN [st EXCEPT !.heap = rest]
        ELSE
        LET g_a == Unwrap(st.groups[a + 1])
            g_b == Unwrap(st.groups[b + 1])
            new_id == Len(st.groups)
            taken == [st.groups EXCEPT ![a + 1] = None, ![b + 1] = None]
            gs == Append(taken, Some(MergedGroup(g_a, g_b)))
        IN  [groups |-> gs,
             heap |-> rest \o NewCandidates(gs, new_id, 0),
             active |-> st.active - 1,
             broke |-> st.broke]

\* the comparison the other way round: a.stability against b.stability
InsertByStabilityDesc_Ascending(sorted, g) ==
    LET k == Cardinality({p \in DOMAIN sorted : sorted[p].stability <= g.stability})
    IN  SubSeq(sorted, 1, k) \o <<g>> \o SubSeq(sorted, k + 1, Len(sorted))

\* a sort that is not stable: a group goes before the groups that compare equal
InsertByStabilityDesc_Unstable(sorted, g) ==
    LET k == Cardinality({p \in DOMAIN sorted : sorted[p].stability > g.stability})
    IN  SubSeq(sorted, 1, k) \o <<g>> \o SubSeq(sorted, k + 1, Len(sorted))

\* where a group goes in a vector sorted by stability descending: after the
\* groups that do not compare greater (sort_by is stable)
InsertByStabilityDesc(sorted, g) ==
    LET k == Cardinality({p \in DOMAIN sorted : sorted[p].stability >= g.stability})
    IN  SubSeq(sorted, 1, k) \o <<g>> \o SubSeq(sorted, k + 1, Len(sorted))

RECURSIVE SortByStabilityDesc(_)
SortByStabilityDesc(gs) ==
    IF Len(gs) = 0 THEN <<>>
    ELSE InsertByStabilityDesc(SortByStabilityDesc(SubSeq(gs, 1, Len(gs) - 1)),
                               gs[Len(gs)])

\* groups.into_iter().flatten().collect()
RECURSIVE Flatten(_)
Flatten(gs) ==
    IF Len(gs) = 0 THEN <<>>
    ELSE gs[1] \o Flatten(Tail(gs))

\* the groups the function starts from: one per item
SeedGroups(its) == [i \in 1..Len(its) |-> Some(SingleGroup(its, i - 1))]

\* the state the merge loop starts in
SeedState(its) ==
    [groups |-> SeedGroups(its),
     heap |-> InitialCandidates(SeedGroups(its), 0, 1),
     active |-> Len(its),
     broke |-> FALSE]

LoopRuns(st, k) == st.active > k /\ ~st.broke

RECURSIVE RunMergeLoop(_, _, _)
RunMergeLoop(st, k, t) ==
    IF LoopRuns(st, k) THEN RunMergeLoop(MergeStep(st, t), k, t) ELSE st

\* calculate_packing as a function of its arguments
CalculatePacking(its, k, t) ==
    IF Len(its) = 0 \/ k = 0 THEN <<>>
    ELSE IF Len(its) <= k THEN SortByStabilityDesc(Flatten(SeedGroups(its)))
    ELSE SortByStabilityDesc(Flatten(RunMergeLoop(SeedState(its), k, t).groups))

--------------------------------------------------------------------------
(* calculate_packing, step by step *)

PackIdle ==
    /\ items = <<>> /\ max_groups = 0
    /\ groups = <<>> /\ heap = <<>> /\ active_count = 0
    /\ result = <<>> /\ pc = "idle"

PackInit ==
    /\ items \in ItemSeqs
    /\ max_groups \in 0..(MaxItems + 1)
    /\ groups = <<>> /\ heap = <<>> /\ active_count = 0
    /\ result = <<>>
    /\ pc = "start"

\* lines 107-159: the early returns, or the seeding of groups and candidates
PackStart ==
    /\ pc = "start"
    /\ IF Len(items) = 0 \/ max_groups = 0
       THEN /\ result' = <<>>
            /\ pc' = "done"
            /\ UNCHANGED <<groups, heap, active_count>>
       ELSE IF Len(items) <= max_groups
       THEN /\ result' = SortByStabilityDesc(Flatten(SeedGroups(items)))
            /\ pc' = "done"
            /\ UNCHANGED <<groups, heap, active_count>>
       ELSE /\ groups' = SeedState(items).groups
            /\ heap' = SeedState(items).heap
            /\ active_count' = SeedState(items).active
            /\ pc' = "loop"
            /\ UNCHANGED result
    /\ UNCHANGED <<items, max_groups, tie, layerVars, stabVars, kvVars, runVars,
                   providerVars>>

LoopState == [groups |-> groups, heap |-> heap, active |-> active_count, broke |-> FALSE]

\* lines 163-215: one iteration of the merge loop; when the heap is exhausted
\* the loop breaks and lines 216-221 collect what is there
PackMerge ==
    /\ pc = "loop"
    /\ active_count > max_groups
    /\ LET st == MergeStep(LoopState, tie)
       IN  /\ groups' = st.groups
           /\ heap' = st.heap
           /\ active_count' = st.active
           /\ pc' = IF st.broke THEN "done" ELSE "loop"
           /\ result' = IF st.broke THEN SortByStabilityDesc(Flatten(st.groups))
                                    ELSE result
    /\ UNCHANGED <<items, max_groups, tie, layerVars, stabVars, kvVars, runVars,
                   providerVars>>

\* lines 216-221: collect the active groups and sort them
PackCollect ==
    /\ pc = "loop"
    /\ active_count <= max_groups
    /\ result' = SortByStabilityDesc(Flatten(groups))
    /\ pc' = "done"
    /\ UNCHANGED <<runVars, providerVars>>
    /\ UNCHANGED <<items, max_groups, tie, groups, heap, active_count, layerVars,
                   stabVars, kvVars>>

--------------------------------------------------------------------------
(* src/cmd_build.rs: pack_components *)

\* Strings are sequences of ASCII codes.
Space == 32

\* a < b for two strings (str's Ord: lexicographic by byte)
RECURSIVE StrLess(_, _)
StrLess(a, b) ==
    IF Len(b) = 0 THEN FALSE
    ELSE IF Len(a) = 0 THEN TRUE
    ELSE IF a[1] # b[1] THEN a[1] < b[1]
    ELSE StrLess(Tail(a), Tail(b))

\* the component names of the model: "a", "aa", "b", "ba", ...
NameOf(i) ==
    IF i % 2 = 1 THEN <<97 + (i \div 2)>>
    ELSE <<97 + ((i - 1) \div 2), 97>>

\* the path of the file the i-th component holds: "/a", "/aa", ...
PathOf(i) == <<47>> \o NameOf(i)

ComponentSizes == {1, 10}
ComponentStabilities == {StabOne \div 4, StabOne \div 2}

\* the mtime_clamp of the i-th component (a build time): in turn one below
\* and one above 6, the mtime of every file
ClampOf(i) == IF i % 2 = 1 THEN 5 ELSE 7

\* a component holding one file
ComponentOf(i, size, stability) ==
    [mtime_clamp |-> ClampOf(i),
     stability |-> stability,
     files |-> [p \in {PathOf(i)} |-> [size |-> size, mtime |-> 6]]]

\* the maps of n components
ComponentMaps(n) ==
    {[nm \in {NameOf(i) : i \in 1..n} |->
        LET i == CHOOSE j \in 1..n : NameOf(j) = nm
        IN  ComponentOf(i, sz[i], st[i])] :
     sz \in [1..n -> ComponentSizes],
     st \in [1..n -> ComponentStabilities]}

\* the orders a map of the names S can be iterated in
Orders(S) ==
    {o \in [1..Cardinality(S) -> S] : \A i, j \in DOMAIN o : i # j => o[i] # o[j]}

\* the names of S in ascending order
SortedNames(S) ==
    CHOOSE o \in Orders(S) : \A i, j \in DOMAIN o : i < j => StrLess(o[i], o[j])

\* where an entry goes in a vector sorted by name (sort_by is stable)
InsertByName(sorted, e) ==
    LET k == Cardinality({p \in DOMAIN sorted : ~StrLess(e[1], sorted[p][1])})
    IN  SubSeq(sorted, 1, k) \o <<e>> \o SubSeq(sorted, k + 1, Len(sorted))

\* entries.sort_by(name), on the (name, component) pairs
RECURSIVE SortByName(_)
SortByName(es) ==
    IF Len(es) = 0 THEN <<>>
    ELSE InsertByName(SortByName(SubSeq(es, 1, Len(es) - 1)), es[Len(es)])

\* the entries left in iteration order
Entries_Unsorted(comps, ord) == [i \in DOMAIN ord |-> <<ord[i], comps[ord[i]]>>]

\* lines 352-354: the entries, in iteration order and then sorted by name
Entries(comps, ord) ==
    SortByName([i \in DOMAIN ord |-> <<ord[i], comps[ord[i]]>>])

RECURSIVE SumSizes(_, _)
SumSizes(files, paths) ==
    IF paths = {} THEN 0
    ELSE LET p == CHOOSE q \in paths : TRUE
         IN  files[p].size + SumSizes(files, paths \ {p})

\* lines 356-368: the PackItem of every entry
ItemsOf(es) ==
    [i \in DOMAIN es |->
        [size |-> SumSizes(es[i][2].files, DOMAIN es[i][2].files),
         stability |-> es[i][2].stability]]

\* FileMap::extend: the entries of b are added to a, replacing equal paths
Extend(a, b) ==
    [p \in DOMAIN a \cup DOMAIN b |-> IF p \in DOMAIN b THEN b[p] ELSE a[p]]

\* where a name goes in a sorted vector of names
InsertName(sorted, nm) ==
    LET k == Cardinality({p \in DOMAIN sorted : ~StrLess(nm, sorted[p])})
    IN  SubSeq(sorted, 1, k) \o <<nm>> \o SubSeq(sorted, k + 1, Len(sorted))

\* the names left in the order the members were taken
SortNames_AsTaken(ns) == ns

\* names.sort()
RECURSIVE SortNames(_)
SortNames(ns) ==
    IF Len(ns) = 0 THEN <<>>
    ELSE InsertName(SortNames(SubSeq(ns, 1, Len(ns) - 1)), ns[Len(ns)])

\* names.join(" ")
RECURSIVE Join(_)
Join(ns) ==
    IF Len(ns) = 0 THEN <<>>
    ELSE IF Len(ns) = 1 THEN ns[1]
    ELSE ns[1] \o <<Space>> \o Join(Tail(ns))

\* entries[idx].take(): the entry, or None when idx is out of range or taken
Take(es, idx) == IF idx + 1 \in DOMAIN es THEN es[idx + 1] ELSE None

\* the clamp of the member taken last
MaxClamp_Last(acc, clamp) == clamp

\* the clamp of a merged group: the running maximum, from 0
MaxClamp(acc, clamp) == IF clamp > acc THEN clamp ELSE acc

\* lines 386-395: the members of a merged group taken one by one, on
\* m = [es, names, files, clamp, bad]
RECURSIVE TakeMembers(_, _)
TakeMembers(m, indices) ==
    IF Len(indices) = 0 \/ m.bad THEN m
    ELSE LET idx == indices[1]
             e == Take(m.es, idx)
         IN  IF IsNone(e) THEN [m EXCEPT !.bad = TRUE]
             ELSE TakeMembers(
                    [es |-> [m.es EXCEPT ![idx + 1] = None],
                     names |-> Append(m.names, Unwrap(e)[1]),
                     files |-> Extend(m.files, Unwrap(e)[2].files),
                     clamp |-> MaxClamp(m.clamp, Unwrap(e)[2].mtime_clamp),
                     bad |-> FALSE],
                    Tail(indices))

\* lines 397-407: the layer of a merged group
MergedLayer(m, group) ==
    <<Join(SortNames(m.names)),
      [mtime_clamp |-> m.clamp, stability |-> group.stability, files |-> m.files]>>

\* lines 374-409: the layers of the packed groups, on
\* b = [es, result, bad] with es the entries as Options
RECURSIVE BuildLayers(_, _)
BuildLayers(b, packed_groups) ==
    IF Len(packed_groups) = 0 \/ b.bad THEN b
    ELSE LET group == packed_groups[1]
         IN  IF Len(group.indices) = 1
             THEN LET e == Take(b.es, group.indices[1])
                  IN  IF IsNone(e) THEN [b EXCEPT !.bad = TRUE]
                      ELSE BuildLayers(
                             [es |-> [b.es EXCEPT ![group.indices[1] + 1] = None],
                              result |-> Append(b.result, Unwrap(e)),
                              bad |-> FALSE],
                             Tail(packed_groups))
             ELSE LET m == TakeMembers(
                             [es |-> b.es, names |-> <<>>, files |-> <<>>,
                              clamp |-> 0, bad |-> FALSE],
                             group.indices)
                  IN  IF m.bad THEN [b EXCEPT !.bad = TRUE]
                      ELSE BuildLayers(
                             [es |-> m.es,
                              result |-> Append(b.result, MergedLayer(m, group)),
                              bad |-> FALSE],
                             Tail(packed_groups))

\* pack_components: [result, bad]
PackComponents(comps, ord, k, t) ==
    LET entries == Entries(comps, ord)
        packed_groups == CalculatePacking(ItemsOf(entries), k, t)
    IN  BuildLayers([es |-> [i \in DOMAIN entries |-> Some(entries[i])],
                     result |-> <<>>, bad |-> FALSE],
                    packed_groups)

\* the mtime written for a file of a layer: clamped to the layer's mtime_clamp
ClampedMtime(mtime, clamp) == IF mtime > clamp THEN clamp ELSE mtime

\* the tar entries of the layers: per layer, path -> mtime
WriteLayers(ls) ==
    [i \in DOMAIN ls |->
        [p \in DOMAIN ls[i][2].files |->
            ClampedMtime(ls[i][2].files[p].mtime, ls[i][2].mtime_clamp)]]

--------------------------------------------------------------------------
(* pack_components and the writing of its layers, run by run *)

LayersIdle ==
    /\ components = <<>> /\ max_layers = 0 /\ order = <<>>
    /\ layers = <<>> /\ panicked = FALSE /\ emitted = <<>>
    /\ prev_layers = None /\ lpc = "idle"

\* the first run iterates the map in name order, a later run in any order
LayersInit ==
    /\ \E n \in 1..MaxItems : components \in ComponentMaps(n)
    /\ max_layers \in 0..MaxItems
    /\ order = SortedNames(DOMAIN components)
    /\ layers = <<>> /\ panicked = FALSE /\ emitted = <<>>
    /\ prev_layers = None
    /\ lpc = "start"

\* cmd_build.rs line 206: pack_components(args, components)
Pack ==
    /\ lpc = "start"
    /\ LET r == PackComponents(components, order, max_layers, tie)
       IN  /\ layers' = r.result
           /\ panicked' = r.bad
    /\ lpc' = "packed"
    /\ UNCHANGED <<runVars, providerVars>>
    /\ UNCHANGED <<tie, packVars, stabVars, kvVars, components, max_layers, order,
                   emitted, prev_layers>>

\* cmd_build.rs lines 216-230: the builder writes every layer
Write ==
    /\ lpc = "packed"
    /\ ~panicked
    /\ emitted' = WriteLayers(layers)
    /\ lpc' = "written"
    /\ UNCHANGED <<runVars, providerVars>>
    /\ UNCHANGED <<tie, packVars, stabVars, kvVars, components, max_layers, order,
                   layers, panicked, prev_layers>>

\* a second run on the same components, whose map iterates in another order
Rerun ==
    /\ lpc = "written"
    /\ prev_layers = None
    /\ \E o \in Orders(DOMAIN components) :
          /\ order' = o
          /\ LET r == PackComponents(components, o, max_layers, tie)
             IN  /\ layers' = r.result
                 /\ panicked' = r.bad
    /\ prev_layers' = Some(layers)
    /\ emitted' = <<>>
    /\ lpc' = "packed"
    /\ UNCHANGED <<runVars, providerVars>>
    /\ UNCHANGED <<tie, packVars, stabVars, kvVars, components, max_layers>>

--------------------------------------------------------------------------
(* src/utils.rs: calculate_stability *)

SECS_PER_DAY == 86400
STABILITY_LOOKBACK_DAYS == 365
STABILITY_PERIOD_DAYS == 7

\* u64::saturating_sub
SaturatingSub(a, b) == IF a >= b THEN a - b ELSE 0

\* the lookback taken in seconds instead of days
LookbackStart_Seconds(t_now) == SaturatingSub(t_now, STABILITY_LOOKBACK_DAYS)

\* line 172
LookbackStart(t_now) ==
    SaturatingSub(t_now, STABILITY_LOOKBACK_DAYS * SECS_PER_DAY)

\* the changelog alone, without the build time to fall back on
TimeSeries_NoFallback(times, t_build) == times

\* lines 175-179: the changelog, or the build time when there is none
TimeSeries(times, t_build) ==
    IF Len(times) = 0 THEN <<t_build>> ELSE times

\* line 182: retain(|&t| t >= lookback_start)
Retain(times, lookback_start) ==
    SelectSeq(times, LAMBDA t : t >= lookback_start)

\* line 193: seconds as days, in fixed point
SpanDays(t_now, oldest) ==
    LET secs == SaturatingSub(t_now, oldest)
    IN  (secs \div SECS_PER_DAY) * FixedOne
        + ((secs % SECS_PER_DAY) * FixedOne) \div SECS_PER_DAY

\* exp(-x) for a fixed-point x >= 0: halve x down to [0, 1], take the
\* series to the fourth power there, and square back
RECURSIVE ExpNeg(_)
ExpNeg(x) ==
    IF x > FixedOne
    THEN LET h == ExpNeg(x \div 2) IN (h * h) \div FixedOne
    ELSE LET x2 == (x * x) \div FixedOne
             x3 == (x2 * x) \div FixedOne
             x4 == (x3 * x) \div FixedOne
         IN  FixedOne - x + x2 \div 2 - x3 \div 6 + x4 \div 24

\* f64::exp in fixed point; an overflowing value is FixedOne * FixedOne
Exp(x) ==
    IF x <= 0 THEN ExpNeg(-x)
    ELSE IF ExpNeg(x) = 0 THEN FixedOne * FixedOne
    ELSE (FixedOne * FixedOne) \div ExpNeg(x)

\* the exponent without its sign
Poisson_Positive(num_changes, span_days) ==
    LET lambda == (num_changes * FixedOne * FixedOne) \div span_days
    IN  Exp(lambda * STABILITY_PERIOD_DAYS)

\* lines 200-205: exp(-lambda * STABILITY_PERIOD_DAYS)
Poisson(num_changes, span_days) ==
    LET lambda == (num_changes * FixedOne * FixedOne) \div span_days
    IN  Exp(-(lambda * STABILITY_PERIOD_DAYS))

\* 0.99
VeryStable == (99 * FixedOne) \div 100

Ok(v) == [ok |-> TRUE, value |-> v]

\* calculate_stability
CalculateStability(times, t_build, t_now) ==
    LET relevant_times == Retain(TimeSeries(times, t_build), LookbackStart(t_now))
    IN  IF Len(relevant_times) = 0 THEN Ok(VeryStable)
        ELSE LET oldest == Min({relevant_times[k] : k \in DOMAIN relevant_times})
                 span_days == SpanDays(t_now, oldest)
             IN  IF span_days < FixedOne THEN Ok(0)
                 ELSE Ok(Poisson(Len(relevant_times), span_days))

\* the clock readings of the model: the epoch, its first hour, a time less
\* than the lookback after the epoch, and one more than the lookback after it
Nows == {0, 3600, 40 * SECS_PER_DAY, 400 * SECS_PER_DAY}

\* how long before now a timestamp of the model lies
Ages ==
    {0, 3600, SECS_PER_DAY - 1, SECS_PER_DAY, 30 * SECS_PER_DAY,
     STABILITY_LOOKBACK_DAYS * SECS_PER_DAY,
     STABILITY_LOOKBACK_DAYS * SECS_PER_DAY + 1}

\* the timestamps of the model around a clock reading: past ones, and one
\* an hour ahead of the clock
Timestamps(t_now) == {t_now - a : a \in {b \in Ages : b <= t_now}} \cup {t_now + 3600}

StabIdle ==
    /\ changelog_times = <<>> /\ buildtime = 0 /\ now = 0 /\ stab_result = None

StabInit ==
    /\ now \in Nows
    /\ \E n \in 0..MaxChangelog : changelog_times \in [1..n -> Timestamps(now)]
    /\ buildtime \in Timestamps(now)
    /\ stab_result = None

CallStability ==
    /\ IsNone(stab_result)
    /\ stab_result' = Some(CalculateStability(changelog_times, buildtime, now))
    /\ UNCHANGED <<tie, packVars, layerVars, kvVars, changelog_times, buildtime, now,
                   runVars, providerVars>>

--------------------------------------------------------------------------
(* src/cmd_build.rs: parse_key_value_pairs *)

Equals == 61
Dash == 45

EmptyMap == [k \in {} |-> <<>>]

\* an insert that keeps the value of a key already present
Insert_KeepFirst(map, k, v) ==
    [x \in DOMAIN map \cup {k} |-> IF x \in DOMAIN map THEN map[x] ELSE v]

\* HashMap::insert
Insert(map, k, v) == [x \in DOMAIN map \cup {k} |-> IF x = k THEN v ELSE map[x]]

\* HashMap::remove
Remove(map, k) == [x \in DOMAIN map \ {k} |-> map[x]]

\* str::split_once('='): None, or Some(<<before, after>>) of the first '='
SplitOnce(str) ==
    LET at == {p \in DOMAIN str : str[p] = Equals}
    IN  IF at = {} THEN None
        ELSE Some(<<SubSeq(str, 1, Min(at) - 1), SubSeq(str, Min(at) + 1, Len(str))>>)

\* str::strip_suffix('-'): None, or Some(the string without its last '-')
StripSuffix(str) ==
    IF Len(str) >= 1 /\ str[Len(str)] = Dash
    THEN Some(SubSeq(str, 1, Len(str) - 1))
    ELSE None

\* a bare - taken as the removal of the empty key
ApplyDash_NoClear(map, k) == Remove(map, k)

\* lines 333-337: a pair KEY- or -
ApplyDash(map, k) == IF Len(k) = 0 THEN EmptyMap ELSE Remove(map, k)

\* a loop body that tries strip_suffix('-') before split_once('=')
ApplyPair_DashFirst(r, pair) ==
    IF IsSome(StripSuffix(pair))
    THEN [ok |-> TRUE, map |-> ApplyDash(r.map, Unwrap(StripSuffix(pair)))]
    ELSE IF IsSome(SplitOnce(pair))
    THEN LET kv == Unwrap(SplitOnce(pair))
         IN  IF Len(kv[1]) = 0 THEN [ok |-> FALSE, map |-> EmptyMap]
             ELSE [ok |-> TRUE, map |-> Insert(r.map, kv[1], kv[2])]
    ELSE [ok |-> FALSE, map |-> EmptyMap]

\* lines 329-340: one pair applied to [ok, map]
ApplyPair(r, pair) ==
    IF IsSome(SplitOnce(pair))
    THEN LET kv == Unwrap(SplitOnce(pair))
         IN  IF Len(kv[1]) = 0 THEN [ok |-> FALSE, map |-> EmptyMap]
             ELSE [ok |-> TRUE, map |-> Insert(r.map, kv[1], kv[2])]
    ELSE IF IsSome(StripSuffix(pair))
    THEN [ok |-> TRUE, map |-> ApplyDash(r.map, Unwrap(StripSuffix(pair)))]
    ELSE [ok |-> FALSE, map |-> EmptyMap]

\* parse_key_value_pairs: [ok, map]; an Err carries no map
RECURSIVE ParseKeyValuePairs(_, _)
ParseKeyValuePairs(ps, map) ==
    IF Len(ps) = 0 THEN [ok |-> TRUE, map |-> map]
    ELSE LET r == ApplyPair([ok |-> TRUE, map |-> map], ps[1])
         IN  IF r.ok THEN ParseKeyValuePairs(Tail(ps), r.map) ELSE r

\* the pairs of the model:
\*   "a=b"  "a=-"  "b="  "-=a"  set a key
\*   "a-"   "--"                remove a key
\*   "-"                        clear
\*   ""     "a"    "=a"   "=-"  malformed
PairUniverse ==
    {<<97, 61, 98>>, <<97, 61, 45>>, <<98, 61>>, <<45, 61, 97>>,
     <<97, 45>>, <<45, 45>>,
     <<45>>,
     <<>>, <<97>>, <<61, 97>>, <<61, 45>>}

\* the maps of the model: empty, {"a": "c"}, {"a": "c", "-": "b"}
BaseMaps ==
    {EmptyMap,
     [k \in {<<97>>} |-> <<99>>],
     [k \in {<<97>>, <<45>>} |-> IF k = <<97>> THEN <<99>> ELSE <<98>>]}

KvIdle == pairs = <<>> /\ base_map = EmptyMap /\ parsed = None

KvInit ==
    /\ \E n \in 0..MaxPairs : pairs \in [1..n -> PairUniverse]
    /\ base_map \in BaseMaps
    /\ parsed = None

Parse ==
    /\ IsNone(parsed)
    /\ parsed' = Some(ParseKeyValuePairs(pairs, base_map))
    /\ UNCHANGED <<tie, packVars, layerVars, stabVars, pairs, base_map, runVars,
                   providerVars>>

--------------------------------------------------------------------------
(* src/main.rs: main, and src/cmd_build.rs: run *)

\* the SIGINTs one run of the process receives
MaxSigints == 1

\* the bytes a build writes before it finishes
MaxBytes == 2

\* a pipeline that creates the output file before it opens the rootfs
RunStages_CreateFirst ==
    <<"parse_args", "init_tracing", "set_handler",
      "epoch", "config", "annotations", "image_config", "output", "open_rootfs",
      "scan", "load", "into_components", "pack", "builder", "build",
      "return">>

\* the steps of main (main.rs 33-41) and of run (cmd_build.rs 150-233), in
\* the order of the code
RunStages ==
    <<"parse_args", "init_tracing", "set_handler",
      "epoch", "config", "annotations", "image_config", "open_rootfs",
      "scan", "load", "into_components", "pack", "builder", "output", "build",
      "return">>

StageIndex(s) == CHOOSE i \in DOMAIN RunStages : RunStages[i] = s

StageAfter(s) == RunStages[StageIndex(s) + 1]

\* an exit status: process::exit(code) or the end of main, or death by signal
Exited(by, code) == [kind |-> "exit", by |-> by, code |-> code]
Killed(sig) == [kind |-> "signal", by |-> "kernel", code |-> sig]

\* the exit code of the handler, main.rs 41
HandlerExitCode == 130

\* a process that never installs a handler
Disposition_Default(installed, pid1) == IF pid1 THEN "ignored" ELSE "default"

\* what a SIGINT does.  With the handler of main.rs 41 installed it wakes the
\* handler thread; before that the default action applies, which kills the
\* process, except that the kernel delivers no signal with a default action
\* to PID 1 (main.rs 37-40).
Disposition(installed, pid1) ==
    IF installed THEN "handler" ELSE IF pid1 THEN "ignored" ELSE "default"

RunIdle ==
    /\ is_pid1 = FALSE /\ args_output = FALSE /\ config_src = "default"
    /\ epoch_given = FALSE /\ stage = "idle" /\ passed = {}
    /\ handler_set = FALSE /\ handler_pending = FALSE /\ sigints = <<>>
    /\ output_created = FALSE /\ file_bytes = 0 /\ stdout_bytes = 0
    /\ exit = None

RunInit ==
    /\ is_pid1 \in BOOLEAN /\ args_output \in BOOLEAN
    /\ config_src \in {"file", "str", "default"}
    /\ epoch_given \in BOOLEAN /\ stage = RunStages[1] /\ passed = {}
    /\ handler_set = FALSE /\ handler_pending = FALSE /\ sigints = <<>>
    /\ output_created = FALSE /\ file_bytes = 0 /\ stdout_bytes = 0
    /\ exit = None

runInputs == <<is_pid1, args_output, config_src, epoch_given>>

runFrame == <<tie, packVars, layerVars, stabVars, kvVars, providerVars, runInputs>>

\* a step of main that returns Ok and moves on, or (when it can fail)
\* returns an Err that main returns: exit code `code`
RunStep(s, can_fail, code) ==
    /\ stage = s /\ IsNone(exit)
    /\ \/ /\ stage' = StageAfter(s)
          /\ passed' = passed \cup {s}
          /\ UNCHANGED exit
       \/ /\ can_fail
          /\ exit' = Some(Exited("main", code))
          /\ UNCHANGED <<stage, passed>>

\* main.rs 33: Cli::parse(); clap exits with code 2 on a usage error
ParseArgs ==
    /\ RunStep("parse_args", TRUE, 2)
    /\ UNCHANGED <<runFrame, handler_set, handler_pending, sigints,
                   output_created, file_bytes, stdout_bytes>>

\* main.rs 35: init_tracing; the log goes to stderr (main.rs 63)
InitTracing ==
    /\ RunStep("init_tracing", FALSE, 1)
    /\ UNCHANGED <<runFrame, handler_set, handler_pending, sigints,
                   output_created, file_bytes, stdout_bytes>>

\* main.rs 41: ctrlc::set_handler(|| std::process::exit(130))
SetHandler ==
    /\ RunStep("set_handler", TRUE, 1)
    /\ handler_set' = IsNone(exit')
    /\ UNCHANGED <<runFrame, handler_pending, sigints,
                   output_created, file_bytes, stdout_bytes>>

\* cmd_build.rs 150-152: get_current_epoch is called, and can fail, only
\* without --source-date-epoch
Epoch ==
    /\ RunStep("epoch", ~epoch_given, 1)
    /\ UNCHANGED <<runFrame, handler_set, handler_pending, sigints,
                   output_created, file_bytes, stdout_bytes>>

\* cmd_build.rs 156-172: the base config, read and parsed
LoadConfig ==
    /\ RunStep("config", config_src # "default", 1)
    /\ UNCHANGED <<runFrame, handler_set, handler_pending, sigints,
                   output_created, file_bytes, stdout_bytes>>

\* cmd_build.rs 181-182: parse_key_value_pairs(&args.annotations, ..)
ParseAnnotations ==
    /\ RunStep("annotations", TRUE, 1)
    /\ UNCHANGED <<runFrame, handler_set, handler_pending, sigints,
                   output_created, file_bytes, stdout_bytes>>

\* cmd_build.rs 184-185: build_image_config, which parses the labels
BuildImageConfig ==
    /\ RunStep("image_config", TRUE, 1)
    /\ UNCHANGED <<runFrame, handler_set, handler_pending, sigints,
                   output_created, file_bytes, stdout_bytes>>

\* cmd_build.rs 187-188: Dir::open_ambient_dir
OpenRootfs ==
    /\ RunStep("open_rootfs", TRUE, 1)
    /\ UNCHANGED <<runFrame, handler_set, handler_pending, sigints,
                   output_created, file_bytes, stdout_bytes>>

\* cmd_build.rs 190-194: Scanner .. prune .. scan
Scan ==
    /\ RunStep("scan", TRUE, 1)
    /\ UNCHANGED <<runFrame, handler_set, handler_pending, sigints,
                   output_created, file_bytes, stdout_bytes>>

\* cmd_build.rs 197-201: ComponentsRepos::load, and the bail on no repo
LoadComponents ==
    /\ RunStep("load", TRUE, 1)
    /\ UNCHANGED <<runFrame, handler_set, handler_pending, sigints,
                   output_created, file_bytes, stdout_bytes>>

\* cmd_build.rs 203: repos.into_components(files)
IntoComponents ==
    /\ RunStep("into_components", FALSE, 1)
    /\ UNCHANGED <<runFrame, handler_set, handler_pending, sigints,
                   output_created, file_bytes, stdout_bytes>>

\* cmd_build.rs 207: pack_components
PackStep ==
    /\ RunStep("pack", TRUE, 1)
    /\ UNCHANGED <<runFrame, handler_set, handler_pending, sigints,
                   output_created, file_bytes, stdout_bytes>>

\* cmd_build.rs 217-221: Builder::new
NewBuilder ==
    /\ RunStep("builder", TRUE, 1)
    /\ UNCHANGED <<runFrame, handler_set, handler_pending, sigints,
                   output_created, file_bytes, stdout_bytes>>

\* cmd_build.rs 223-226 and 228-229: File::create(output_path), or stdout
OpenOutput ==
    /\ RunStep("output", args_output, 1)
    /\ output_created' = (args_output /\ IsNone(exit'))
    /\ UNCHANGED <<runFrame, handler_set, handler_pending, sigints,
                   file_bytes, stdout_bytes>>

\* cmd_build.rs 227 and 230: builder.build writes a byte of the archive
BuildWrite ==
    /\ stage = "build" /\ IsNone(exit)
    /\ file_bytes + stdout_bytes < MaxBytes
    /\ IF output_created
       THEN file_bytes' = file_bytes + 1 /\ UNCHANGED stdout_bytes
       ELSE stdout_bytes' = stdout_bytes + 1 /\ UNCHANGED file_bytes
    /\ UNCHANGED <<runFrame, stage, passed, handler_set, handler_pending,
                   sigints, output_created, exit>>

\* cmd_build.rs 227 and 230: builder.build returns, Ok once the archive is
\* written, or an Err at any point
BuildEnd ==
    /\ RunStep("build", TRUE, 1)
    /\ IsNone(exit') => file_bytes + stdout_bytes >= 1
    /\ UNCHANGED <<runFrame, handler_set, handler_pending, sigints,
                   output_created, file_bytes, stdout_bytes>>

\* cmd_build.rs 233 and main.rs 47: Ok(()) all the way up
Return ==
    /\ stage = "return" /\ IsNone(exit)
    /\ exit' = Some(Exited("main", 0))
    /\ UNCHANGED <<runFrame, stage, passed, handler_set, handler_pending,
                   sigints, output_created, file_bytes, stdout_bytes>>

\* a SIGINT reaches the process
Sigint ==
    /\ IsNone(exit) /\ Len(sigints) < MaxSigints
    /\ LET did == Disposition(handler_set, is_pid1)
       IN  /\ sigints' = Append(sigints, [at |-> stage, did |-> did])
           /\ handler_pending' = (handler_pending \/ did = "handler")
           /\ exit' = IF did = "default" THEN Some(Killed("SIGINT")) ELSE exit
    /\ UNCHANGED <<runFrame, stage, passed, handler_set, output_created,
                   file_bytes, stdout_bytes>>

\* main.rs 41: the handler runs in its own thread: std::process::exit(130)
HandlerExit ==
    /\ IsNone(exit) /\ handler_pending
    /\ exit' = Some(Exited("handler", HandlerExitCode))
    /\ UNCHANGED <<runFrame, stage, passed, handler_set, handler_pending,
                   sigints, output_created, file_bytes, stdout_bytes>>

--------------------------------------------------------------------------
(* src/utils.rs: canonicalize_parent_path, canonicalize_dir_path *)

(* A path is the sequence of its components below the root: the root is    *)
(* <<>> and /a/b is <<a, b>>, a name being a positive number and the       *)
(* component ".." being DotDot.  A symlink target is absolute or relative  *)
(* and holds its components.                                               *)

\* the longest path given to canonicalize_parent_path
MaxPathLen == 3

\* utils.rs 66
MAX_SYMLINK_DEPTH == 40

\* Utf8Component::ParentDir
DotDot == 0

RootPath == <<>>

\* Utf8Path::parent of a path that is not the root
ParentPath(path) == SubSeq(path, 1, Len(path) - 1)

\* Utf8Path::file_name: None for a path that ends in ".."
FileName(path) ==
    IF path[Len(path)] = DotDot THEN None ELSE Some(path[Len(path)])

\* Utf8PathBuf::pop: the root stays the root
PopPath(path) == IF path = RootPath THEN path ELSE ParentPath(path)

\* utils.rs 143-155: the loop of normalize_path over the components left
RECURSIVE NormalizeFrom(_, _)
NormalizeFrom(res, comps) ==
    IF comps = <<>> THEN res
    ELSE IF Head(comps) = DotDot THEN NormalizeFrom(PopPath(res), Tail(comps))
    ELSE NormalizeFrom(Append(res, Head(comps)), Tail(comps))

\* normalize_path of an absolute path
NormalizePath(path) == NormalizeFrom(RootPath, path)

\* a FileInfo; target is Some([absolute, comps]) for a symlink
FileInfoOf(file_type, target, size, ino, nlink) ==
    [file_type |-> file_type, target |-> target, size |-> size, ino |-> ino,
     nlink |-> nlink]

Directory == FileInfoOf("Directory", None, 0, 0, 1)
RegularFile == FileInfoOf("File", None, 0, 0, 1)
SymlinkTo(absolute, comps) ==
    FileInfoOf("Symlink", Some([absolute |-> absolute, comps |-> comps]), 0, 0, 1)

\* an is_symlink that takes every entry for a directory
IsSymlink_Never(fmap, path) == FALSE

\* utils.rs 100-106: is_symlink, false for a path the FileMap does not hold
IsSymlink(fmap, path) ==
    path \in DOMAIN fmap /\ fmap[path].file_type = "Symlink"

\* the outcomes of canonicalize_parent_path: Ok(path), the Err of the depth
\* limit, or a panic of an expect
CanonOk(path) == [kind |-> "ok", path |-> path]
CanonErr == [kind |-> "too many levels of symbolic links", path |-> RootPath]
CanonPanic == [kind |-> "panic", path |-> RootPath]

\* a limit that rejects the 40th nested target already
TooDeep_Inclusive(depth) == depth >= MAX_SYMLINK_DEPTH

\* utils.rs 76
TooDeep(depth) == depth > MAX_SYMLINK_DEPTH

\* utils.rs 52-55: the path canonicalize_parent_path has resolved
DirOf(path) == ParentPath(path)

\* a join that leaves the file name out
JoinFileName_Dropped(canonical_parent, path) == canonical_parent

\* utils.rs 56-62: the file name of the path joined to its canonical parent
JoinFileName(canonical_parent, path) ==
    Append(canonical_parent, Unwrap(FileName(path)))

\* a call of canonicalize_dir_path in progress: its arguments and where it is
\* ("enter": at line 74; "parent": in the call of line 94; "target": in the
\* call of line 121 or 127)
Frame(path, depth, phase) == [path |-> path, depth |-> depth, phase |-> phase]

Top == call_stack[Len(call_stack)]

Popped == SubSeq(call_stack, 1, Len(call_stack) - 1)

\* the pc after a call of canonicalize_parent_path has returned
AfterPc ==
    IF cpc = "first" THEN "returned"
    ELSE IF cpc = "warm" THEN "done_warm"
    ELSE IF cpc = "cold" THEN "done_cold"
    ELSE IF cpc = "again" THEN "done_again" ELSE "done_toggled"

\* utils.rs 108-121, 123-127: the path the target of a symlink names
TargetPath(canonical_parent, target) ==
    IF target.absolute THEN target.comps
    ELSE NormalizePath(canonical_parent \o target.comps)

\* the symlink targets of the small FileMaps: /b, ../a, /b/..
SmallTargets ==
    {SymlinkTo(TRUE, <<2>>), SymlinkTo(FALSE, <<DotDot, 1>>),
     SymlinkTo(TRUE, <<2, DotDot>>)}

SmallInfos == {Directory, RegularFile} \cup SmallTargets

\* a map a scan can return: every entry lies in a directory of the map
IsTree(fmap) ==
    \A p \in DOMAIN fmap :
        Len(p) > 1 => (ParentPath(p) \in DOMAIN fmap
                        /\ fmap[ParentPath(p)].file_type = "Directory")

\* the small FileMaps: /a, /b and /b/a, each absent or any SmallInfo
SmallMaps ==
    {fmap \in UNION {[ps -> SmallInfos] : ps \in SUBSET {<<1>>, <<2>>, <<2, 1>>}} :
        IsTree(fmap)}

\* the name of the k-th link of a chain
ChainName(k) == 10 + k

\* /c1 -> /c2 -> .. -> /cn -> /c(n+1), the last a directory, or (cyclic)
\* /cn -> /c1 again
ChainMap(n, cyclic) ==
    [p \in {<<ChainName(k)>> : k \in 1..(n + 1)} |->
        IF p[1] = ChainName(n + 1) THEN Directory
        ELSE IF p[1] = ChainName(n) /\ cyclic THEN SymlinkTo(TRUE, <<ChainName(1)>>)
        ELSE SymlinkTo(TRUE, <<p[1] + 1>>)]

\* chains of a length around the depth limit
ChainLengths == (MAX_SYMLINK_DEPTH - 1)..(MAX_SYMLINK_DEPTH + 2)

ChainMaps == {ChainMap(n, cyclic) : n \in ChainLengths, cyclic \in BOOLEAN}

\* all paths of at most n components over the names ns
RECURSIVE PathsUpTo(_, _)
PathsUpTo(ns, n) ==
    IF n = 0 THEN {RootPath}
    ELSE LET shorter == PathsUpTo(ns, n - 1)
         IN  shorter \cup {Append(p, x) : p \in shorter, x \in ns}

\* the paths canonicalized: in a small map the paths over a and b, /a/.. and
\* /../a; in a chain a file below one of its first three links
InputPaths(fmap) ==
    IF \E k \in 1..3 : <<ChainName(k)>> \in DOMAIN fmap
    THEN {<<ChainName(k), 1>> : k \in 1..3}
    ELSE PathsUpTo({1, 2}, MaxPathLen) \cup {<<1, DotDot>>, <<DotDot, 1>>}

\* the paths of a second call that finds the cache of the first: a directory
\* or a file of the small map, or again a file below a link of the chain
WarmPaths(fmap) ==
    IF \E k \in 1..3 : <<ChainName(k)>> \in DOMAIN fmap
    THEN InputPaths(fmap)
    ELSE PathsUpTo({1, 2}, 2)

\* the FileMap with the entry at path leaf replaced by info
WithLeaf(fmap, leaf, info) ==
    [p \in DOMAIN fmap \cup {leaf} |-> IF p = leaf THEN info ELSE fmap[p]]

CanonIdle ==
    /\ file_map = EmptyMap /\ cache = EmptyMap /\ canon_path = RootPath
    /\ canon_result = None /\ first_result = None /\ call_stack = <<>>
    /\ ret = None /\ looked_up = {} /\ first_looked_up = {} /\ cpc = "idle"

CanonInit ==
    /\ file_map \in SmallMaps \cup ChainMaps
    /\ cache = EmptyMap /\ canon_path = RootPath
    /\ canon_result = None /\ first_result = None /\ call_stack = <<>>
    /\ ret = None /\ looked_up = {} /\ first_looked_up = {} /\ cpc = "ready"

canonFrame == <<tie, packVars, layerVars, stabVars, kvVars, runVars, bigVars,
               rpmVars, alpmVars, lossVars>>

\* utils.rs 47-56: canonicalize_parent_path up to its call of
\* canonicalize_dir_path, or its return for the root
StartCall(path, running) ==
    /\ canon_path' = path
    /\ ret' = None
    /\ looked_up' = {}
    /\ IF path = RootPath
       THEN /\ canon_result' = Some(CanonOk(RootPath))
            /\ call_stack' = <<>>
            /\ cpc' = IF running = "first" THEN "returned" ELSE "done_warm"
       ELSE /\ canon_result' = None
            /\ call_stack' = <<Frame(DirOf(path), 0, "enter")>>
            /\ cpc' = running

\* the first call of a load, with an empty cache
CallFirst ==
    /\ cpc = "ready"
    /\ \E path \in InputPaths(file_map) : StartCall(path, "first")
    /\ UNCHANGED <<canonFrame, file_map, cache, first_result, first_looked_up>>

\* a later call of the same load, with the cache the first call left
CallWarm ==
    /\ cpc = "returned"
    /\ \E path \in WarmPaths(file_map) : StartCall(path, "warm")
    /\ UNCHANGED <<canonFrame, file_map, cache, first_result, first_looked_up>>

\* the same path canonicalized in a load of a rootfs that differs in the leaf
\* alone: the entry at the returned path is now a symlink or a regular file
CallToggled ==
    /\ cpc = "returned"
    /\ Unwrap(canon_result).kind = "ok" /\ canon_path # RootPath
    /\ first_result' = canon_result
    /\ first_looked_up' = looked_up
    /\ \E info \in SmallTargets \cup {RegularFile} :
        /\ file_map' = WithLeaf(file_map, Unwrap(canon_result).path, info)
        /\ file_map' # file_map
        /\ IsTree(file_map')
    /\ cache' = EmptyMap
    /\ StartCall(canon_path, "toggled")
    /\ UNCHANGED canonFrame

\* the path of the warm call canonicalized once more with an empty cache, as
\* the first call of another load of the same rootfs
CallCold ==
    /\ cpc = "done_warm"
    /\ canon_path # RootPath
    /\ first_result' = canon_result
    /\ cache' = EmptyMap
    /\ StartCall(canon_path, "cold")
    /\ UNCHANGED <<canonFrame, file_map, first_looked_up>>

\* the path the first call returned canonicalized in its turn, in the same
\* load
CallAgain ==
    /\ cpc = "returned"
    /\ Unwrap(canon_result).kind = "ok" /\ Unwrap(canon_result).path # RootPath
    /\ first_result' = canon_result
    /\ StartCall(Unwrap(canon_result).path, "again")
    /\ UNCHANGED <<canonFrame, file_map, cache, first_looked_up>>

\* an Err or a panic ends the call: every caller returns it with `?`
Fail(outcome) ==
    /\ canon_result' = Some(outcome)
    /\ call_stack' = <<>>
    /\ ret' = None
    /\ cpc' = AfterPc

\* canonicalize_dir_path returns Ok(path) to its caller
ReturnOk(path) ==
    /\ call_stack' = Popped
    /\ ret' = Some(path)
    /\ UNCHANGED <<canon_result, cpc>>

\* the top call waits for the call it now makes
CallDir(phase, path, depth) ==
    /\ call_stack' = Append(Append(Popped, Frame(Top.path, Top.depth, phase)),
                            Frame(path, depth, "enter"))
    /\ ret' = None
    /\ UNCHANGED <<canon_result, cpc>>

\* utils.rs 74-94: the depth limit, the cache, the root, the parent
DirEnter ==
    /\ call_stack # <<>> /\ Top.phase = "enter"
    /\ IF TooDeep(Top.depth) THEN Fail(CanonErr)
       ELSE IF Top.path \in DOMAIN cache THEN ReturnOk(cache[Top.path])
       ELSE IF Top.path = RootPath THEN ReturnOk(RootPath)
       ELSE CallDir("parent", ParentPath(Top.path), Top.depth)
    /\ UNCHANGED <<canonFrame, file_map, cache, canon_path, first_result,
                   looked_up, first_looked_up>>

\* utils.rs 96-134: the parent is resolved; the path is no symlink and is
\* cached, or its target is resolved next
DirAfterParent ==
    /\ call_stack # <<>> /\ Top.phase = "parent" /\ IsSome(ret)
    /\ IF IsNone(FileName(Top.path))
       THEN Fail(CanonPanic) /\ UNCHANGED <<cache, looked_up>>
       ELSE LET canonical_parent == Unwrap(ret)
                current_path == Append(canonical_parent, Unwrap(FileName(Top.path)))
            IN  /\ looked_up' = looked_up \cup {current_path}
                /\ IF ~IsSymlink(file_map, current_path)
                   THEN /\ cache' = Insert(cache, Top.path, current_path)
                        /\ ReturnOk(current_path)
                   ELSE /\ CallDir("target",
                                   TargetPath(canonical_parent,
                                              Unwrap(file_map[current_path].target)),
                                   Top.depth + 1)
                        /\ UNCHANGED cache
    /\ UNCHANGED <<canonFrame, file_map, canon_path, first_result, first_looked_up>>

\* utils.rs 121-137: the target is resolved, cached and returned
DirAfterTarget ==
    /\ call_stack # <<>> /\ Top.phase = "target" /\ IsSome(ret)
    /\ cache' = Insert(cache, Top.path, Unwrap(ret))
    /\ ReturnOk(Unwrap(ret))
    /\ UNCHANGED <<canonFrame, file_map, canon_path, first_result, looked_up,
                   first_looked_up>>

\* utils.rs 56-62: canonicalize_parent_path joins the file name
ParentReturn ==
    /\ cpc \in {"first", "warm", "toggled", "cold", "again"}
    /\ call_stack = <<>> /\ IsSome(ret)
    /\ canon_result' =
            IF IsNone(FileName(canon_path)) THEN Some(CanonPanic)
            ELSE Some(CanonOk(JoinFileName(Unwrap(ret), canon_path)))
    /\ ret' = None
    /\ cpc' = AfterPc
    /\ UNCHANGED <<canonFrame, file_map, cache, canon_path, first_result, call_stack,
                   looked_up, first_looked_up>>

--------------------------------------------------------------------------
(* BigfilesRepo::load (components/bigfiles.rs) *)

\* the number of inodes that several paths of the rootfs may share
MaxInodes == 2

\* bigfiles.rs 9
MIN_SIZE == 1048576

\* the order of Utf8PathBuf, by which the FileMap (a BTreeMap) iterates:
\* component by component, a prefix before its extensions
PathLess(p, q) ==
    \E i \in 1..(Min({Len(p), Len(q)}) + 1) :
        /\ \A j \in 1..(i - 1) : p[j] = q[j]
        /\ i <= Len(q)
        /\ i <= Len(p) => p[i] < q[i]

RECURSIVE PathsInOrder(_)
PathsInOrder(paths) ==
    IF paths = {} THEN <<>>
    ELSE LET first == CHOOSE p \in paths : \A q \in paths \ {p} : PathLess(p, q)
         IN  <<first>> \o PathsInOrder(paths \ {first})

SeqRange(seq) == {seq[i] : i \in DOMAIN seq}

\* bigfiles.rs 46-48: the entries the inode table records
IsHardlinkedBig(file_info) ==
    /\ file_info.file_type = "File"
    /\ file_info.nlink > 1
    /\ file_info.size >= MIN_SIZE

\* bigfiles.rs 44-52: inode -> its paths, in the order of the FileMap
InodeTable(files) ==
    [ino \in {files[p].ino : p \in {q \in DOMAIN files : IsHardlinkedBig(files[q])}} |->
        PathsInOrder({p \in DOMAIN files :
                        IsHardlinkedBig(files[p]) /\ files[p].ino = ino})]

\* bigfiles.rs 55: the entries the second loop passes over
Skipped(file_info) == file_info.file_type # "File" \/ file_info.size < MIN_SIZE

\* a loop that never takes a path for processed
AlreadyProcessed_Never(file_info, inode_to_paths) == FALSE

\* bigfiles.rs 60: the inode was taken out of the table by an earlier hardlink
AlreadyProcessed(file_info, inode_to_paths) ==
    file_info.nlink > 1 /\ file_info.ino \notin DOMAIN inode_to_paths

\* bigfiles.rs 64-78: a name is a string, held as its parts between '/': the
\* basename is the last component alone, the path without its leading '/'
\* is all of its components
ComponentName(names, path) ==
    LET filename == <<path[Len(path)]>>
    IN  IF filename \in SeqRange(names) THEN path ELSE filename

\* bigfiles.rs 81: IndexSet::insert_full gives the index of the name, which
\* is appended only when the set does not hold it yet
InsertFull(names, name) ==
    IF name \in SeqRange(names)
    THEN [names |-> names,
          idx |-> (CHOOSE i \in DOMAIN names : names[i] = name) - 1,
          inserted |-> FALSE]
    ELSE [names |-> Append(names, name), idx |-> Len(names), inserted |-> TRUE]

\* bigfiles.rs 54-92: one iteration of the second loop
LoadStep(st, files, path) ==
    LET file_info == files[path] IN
    IF Skipped(file_info) \/ AlreadyProcessed(file_info, st.inode_to_paths) THEN st
    ELSE LET ins == InsertFull(st.components, ComponentName(st.components, path))
             linked_paths ==
                IF file_info.ino \in DOMAIN st.inode_to_paths
                THEN SeqRange(st.inode_to_paths[file_info.ino]) ELSE {}
             with_path == Insert(st.path_to_component, path, ins.idx)
         IN  [components |-> ins.names,
              path_to_component |->
                [q \in DOMAIN with_path \cup linked_paths |->
                    IF q \in linked_paths THEN ins.idx ELSE with_path[q]],
              inode_to_paths |->
                [i \in DOMAIN st.inode_to_paths \ {file_info.ino} |->
                    st.inode_to_paths[i]],
              created |-> Append(st.created,
                                 [path |-> path, id |-> ins.idx,
                                  component |-> ins.names[ins.idx + 1]])]

RECURSIVE LoadLoop(_, _, _)
LoadLoop(st, files, paths) ==
    IF paths = <<>> THEN st
    ELSE LoadLoop(LoadStep(st, files, Head(paths)), files, Tail(paths))

\* bigfiles.rs 39-109
BigfilesLoaded(files) ==
    LoadLoop([components |-> <<>>, path_to_component |-> EmptyMap,
              inode_to_paths |-> InodeTable(files), created |-> <<>>],
             files, PathsInOrder(DOMAIN files))

\* the files of the rootfs: /a/f, /b/f, /f and /g below the directories /a
\* and /b
BigPaths == {<<1, 3>>, <<2, 3>>, <<3>>, <<4>>}

\* the inode of a path no other path shares
OwnIno(path) == 10 * Len(path) + path[1] + path[Len(path)]

\* what a file path holds: a small file, a file of exactly MIN_SIZE, a link
\* to a small shared inode, or a link to one of the big shared inodes (all
\* paths of an inode agree in size and link count)
BigKinds ==
    {<<"small", 0>>, <<"big", 0>>, <<"small_link", 0>>}
    \cup {<<"big_link", g>> : g \in 1..MaxInodes}

BigInfo(path, kind) ==
    CASE kind[1] = "small" -> FileInfoOf("File", None, MIN_SIZE - 1, OwnIno(path), 1)
      [] kind[1] = "big" -> FileInfoOf("File", None, MIN_SIZE, OwnIno(path), 1)
      [] kind[1] = "small_link" -> FileInfoOf("File", None, MIN_SIZE - 1, 200, 2)
      [] kind[1] = "big_link" ->
            FileInfoOf("File", None, MIN_SIZE + kind[2], 100 + kind[2], 2)

\* the FileMaps: the directory /a has a small or a big size of its own
BigMaps ==
    UNION {{[p \in ps \cup {<<1>>, <<2>>} |->
                IF p = <<1>> THEN FileInfoOf("Directory", None, dir_size, 1, 2)
                ELSE IF p = <<2>> THEN FileInfoOf("Directory", None, 4096, 2, 2)
                ELSE BigInfo(p, kind[p])] :
             kind \in [ps -> BigKinds], dir_size \in {4096, MIN_SIZE}} :
           ps \in SUBSET BigPaths}

BigIdle ==
    /\ big_files = EmptyMap /\ default_mtime_clamp = 0 /\ big_repo = None
    /\ created = <<>> /\ bpc = "idle"

BigInit ==
    /\ big_files \in BigMaps
    /\ default_mtime_clamp \in {0, 1}
    /\ big_repo = None /\ created = <<>> /\ bpc = "ready"

bigFrame == <<tie, packVars, layerVars, stabVars, kvVars, runVars, canonVars,
             rpmVars, alpmVars, lossVars>>

\* bigfiles.rs 39-109: None when no file qualifies
Load ==
    /\ bpc = "ready"
    /\ LET st == BigfilesLoaded(big_files) IN
        /\ big_repo' =
            IF st.components = <<>> THEN None
            ELSE Some([components |-> st.components,
                       path_to_component |-> st.path_to_component,
                       default_mtime_clamp |-> default_mtime_clamp])
        /\ created' = st.created
    /\ bpc' = "loaded"
    /\ UNCHANGED <<bigFrame, big_files, default_mtime_clamp>>

--------------------------------------------------------------------------
(* RpmRepo (components/rpm.rs) *)

\* the largest number of packages of the RPM database
MaxPackages == 2

\* rpm.rs 212-214: the file type bits of a mode
S_IFDIR == 16384
S_IFREG == 32768
S_IFLNK == 40960

\* rpm.rs 15: the RPM database directories, as path components
RPMDB_PATHS ==
    {<<"usr", "lib", "sysimage", "rpm">>, <<"usr", "share", "rpm">>,
     <<"var", "lib", "rpm">>}

\* Utf8Path::starts_with: a prefix by whole components
StartsWith(path, prefix) ==
    /\ Len(prefix) <= Len(path)
    /\ \A i \in DOMAIN prefix : path[i] = prefix[i]

\* rpm.rs 195-207: a source RPM file name without its .src.rpm suffix, held
\* as its parts between '-'; the name is what precedes the last two dashes
ParseSrpmName(parts) ==
    IF Len(parts) >= 3 THEN SubSeq(parts, 1, Len(parts) - 2) ELSE parts

\* rpm.rs 61-67: the name of the component a package goes to
PkgComponentName(pkg) ==
    IF IsSome(pkg.sourcerpm) THEN ParseSrpmName(Unwrap(pkg.sourcerpm)) ELSE pkg.name

\* rpm.rs 209-218: mode & S_IFMT, for the modes of 16 bits
FileInfoToFileType(mode) ==
    LET file_type == mode - (mode % 4096) IN
    IF file_type = S_IFDIR THEN Some("Directory")
    ELSE IF file_type = S_IFREG THEN Some("File")
    ELSE IF file_type = S_IFLNK THEN Some("Symlink")
    ELSE None

\* IndexMap::entry(..).index(): the index of the name, or the one it will get
EntryIndex(comps, name) ==
    IF \E i \in DOMAIN comps : comps[i].name = name
    THEN (CHOOSE i \in DOMAIN comps : comps[i].name = name) - 1
    ELSE Len(comps)

\* an entry that takes the build time and the stability of the last package
Occupied_LastWins(existing, pkg, t_now) ==
    [existing EXCEPT !.buildtime = pkg.buildtime,
                     !.stability =
                        CalculateStability(pkg.changelog_times, pkg.buildtime,
                                           t_now).value]

\* rpm.rs 72-77: an occupied entry keeps its stability
Occupied(existing, pkg, t_now) ==
    [existing EXCEPT !.buildtime = Max({@, pkg.buildtime})]

\* rpm.rs 78-82
Vacant(name, pkg, t_now) ==
    [name |-> name, buildtime |-> pkg.buildtime,
     stability |->
        CalculateStability(pkg.changelog_times, pkg.buildtime, t_now).value]

\* rpm.rs 85-93: the paths of one package are added, unless the component
\* already has an entry for the path
AddFiles(path_to_components, component_id, files) ==
    [path \in DOMAIN path_to_components \cup DOMAIN files |->
        LET entries == IF path \in DOMAIN path_to_components
                       THEN path_to_components[path] ELSE <<>>
        IN  IF path \in DOMAIN files
               /\ ~\E i \in DOMAIN entries : entries[i].id = component_id
            THEN Append(entries, [id |-> component_id, mode |-> files[path]])
            ELSE entries]

\* rpm.rs 59-94: one iteration of the loop over the packages
RpmStep(st, pkg, t_now) ==
    LET component_name == PkgComponentName(pkg)
        component_id == EntryIndex(st.components, component_name)
    IN  [components |->
            IF component_id < Len(st.components)
            THEN [st.components EXCEPT ![component_id + 1] = Occupied(@, pkg, t_now)]
            ELSE Append(st.components, Vacant(component_name, pkg, t_now)),
         path_to_components |->
            AddFiles(st.path_to_components, component_id, pkg.files)]

RECURSIVE RpmLoop(_, _, _)
RpmLoop(st, pkgs, t_now) ==
    IF pkgs = <<>> THEN st
    ELSE RpmLoop(RpmStep(st, Head(pkgs), t_now), Tail(pkgs), t_now)

\* a lookup that takes every entry of the path, of whatever type
Matching_AnyType(entries, file_type) == entries

\* rpm.rs 130-134: the entries of the queried type
Matching(entries, file_type) ==
    SelectSeq(entries, LAMBDA e : FileInfoToFileType(e.mode) = Some(file_type))

\* rpm.rs 119-137
ClaimsFor(repo, path, file_type) ==
    IF \E rpmdb \in RPMDB_PATHS : StartsWith(path, rpmdb) THEN <<>>
    ELSE IF path \in DOMAIN repo.path_to_components
    THEN LET entries == Matching(repo.path_to_components[path], file_type)
         IN  [i \in DOMAIN entries |-> entries[i].id]
    ELSE <<>>

\* the files a package records, path -> mode: a shell as a regular file; a
\* shell as a symlink and a file below an RPM database directory; the
\* directory of the shell, the database directory and a device
RpmFileLists ==
    {(<<"usr", "bin", "sh">> :> 33261),
     (<<"usr", "bin", "sh">> :> 41471) @@ (<<"usr", "share", "rpm", "db">> :> 33188),
     (<<"usr", "bin">> :> 16877) @@ (<<"usr", "share", "rpm">> :> 16877)
        @@ (<<"dev", "null">> :> 8630)}

\* build time and changelog of a package, around a clock reading: built a
\* month ago without a changelog; built an hour ago with one entry older
\* than the lookback; built a month ago with an entry of yesterday
RpmHistories(t_now) ==
    {[buildtime |-> t_now - 30 * SECS_PER_DAY, changelog_times |-> <<>>],
     [buildtime |-> t_now - 3600,
      changelog_times |-> <<t_now - STABILITY_LOOKBACK_DAYS * SECS_PER_DAY - 1>>],
     [buildtime |-> t_now - 30 * SECS_PER_DAY,
      changelog_times |-> <<t_now - SECS_PER_DAY>>]}

\* the names of the packages, one per package of the database: bash,
\* bash-doc, bash-devel, bash-libs
PackageNames ==
    <<<<"bash">>, <<"bash", "doc">>, <<"bash", "devel">>, <<"bash", "libs">>>>

\* the k-th package: without a source RPM, or built from bash-5-1.src.rpm or
\* from bash-doc-5-1.src.rpm
RpmPackages(t_now, k) ==
    {[name |-> PackageNames[k], sourcerpm |-> srpm, buildtime |-> h.buildtime,
      changelog_times |-> h.changelog_times, files |-> files] :
        srpm \in {None, Some(<<"bash", "5", "1">>), Some(<<"bash", "doc", "5", "1">>)},
        h \in RpmHistories(t_now), files \in RpmFileLists}

\* the paths and types claims_for_path is asked about
QueryPaths ==
    {<<"usr", "bin", "sh">>, <<"usr", "bin">>, <<"dev", "null">>,
     <<"usr", "share", "rpm">>, <<"usr", "share", "rpm", "db">>, <<"etc">>}

FileTypes == {"File", "Directory", "Symlink"}

RpmIdle ==
    /\ packages = <<>> /\ rpm_now = 0 /\ rpm_repo = None /\ query = None
    /\ rpc = "idle"

RpmInit ==
    /\ rpm_now = 400 * SECS_PER_DAY
    /\ \E n \in 0..MaxPackages :
        /\ packages \in [1..n -> UNION {RpmPackages(rpm_now, k) : k \in 1..n}]
        /\ \A k \in 1..n : packages[k] \in RpmPackages(rpm_now, k)
    /\ rpm_repo = None /\ query = None /\ rpc = "ready"

rpmFrame == <<tie, packVars, layerVars, stabVars, kvVars, runVars, canonVars,
             bigVars, alpmVars, lossVars>>

\* rpm.rs 53-107
LoadFromPackages ==
    /\ rpc = "ready"
    /\ rpm_repo' = Some(RpmLoop([components |-> <<>>, path_to_components |-> EmptyMap],
                                packages, rpm_now))
    /\ rpc' = "loaded"
    /\ UNCHANGED <<rpmFrame, packages, rpm_now, query>>

\* rpm.rs 119-137: a call on the loaded repo, which it leaves as it is
ClaimsForPath ==
    /\ rpc = "loaded"
    /\ \E path \in QueryPaths, file_type \in FileTypes :
        query' = Some([path |-> path, file_type |-> file_type,
                       claims |-> ClaimsFor(Unwrap(rpm_repo), path, file_type)])
    /\ rpc' = "queried"
    /\ UNCHANGED <<rpmFrame, packages, rpm_now, rpm_repo>>

--------------------------------------------------------------------------
(* AlpmComponentsRepo, LocalAlpmDbFile (components/alpm.rs) *)

\* the largest number of entries of the local database directory
MaxAlpmEntries == 2

\* the largest number of lines of a desc or files text
MaxLines == 4

Err(e) == [ok |-> FALSE, error |-> e]

\* alpm.rs 94-102: a package of a BASE already seen
AlpmOccupied_LastWins(e, builddate, stability) ==
    [e EXCEPT !.builddate = builddate, !.stability = stability]

AlpmOccupied(e, builddate, stability) ==
    [e EXCEPT !.builddate = Max({@, builddate}),
              !.stability = Min({@, stability})]

\* alpm.rs 157-197: every path of the package is made absolute and
\* canonicalized, and the component is pushed to the entry of the result; a
\* file holds its path and the outcome canonicalize_parent_path has for it
RECURSIVE FilesToMap(_, _, _)
FilesToMap(path_to_components, component_id, pkgdb_files) ==
    IF pkgdb_files = <<>> THEN Ok(path_to_components)
    ELSE LET file == Head(pkgdb_files) IN
         IF file.absolute THEN Err("absolute path")
         ELSE IF IsNone(file.canonical) THEN Err("canonicalize")
         ELSE LET canonical_path == Unwrap(file.canonical)
                  ids == IF canonical_path \in DOMAIN path_to_components
                         THEN path_to_components[canonical_path] ELSE <<>>
              IN  FilesToMap(Insert(path_to_components, canonical_path,
                                    Append(ids, component_id)),
                             component_id, Tail(pkgdb_files))

\* alpm.rs 77-115: one entry of the local database directory
AlpmStep(st, entry, t_now) ==
    IF ~entry.is_dir THEN Ok(st)
    ELSE IF ~entry.parses THEN Err("parsing metadata")
    ELSE IF IsNone(entry.base) THEN Err("base")
    ELSE IF IsNone(entry.builddate) THEN Err("builddate")
    ELSE LET basename == Unwrap(entry.base)
             builddate == Unwrap(entry.builddate)
             stability == CalculateStability(<<>>, builddate, t_now).value
             component_id == EntryIndex(st.components, basename)
             comps ==
                IF component_id < Len(st.components)
                THEN [st.components EXCEPT
                        ![component_id + 1] = AlpmOccupied(@, builddate, stability)]
                ELSE Append(st.components,
                            [name |-> basename, builddate |-> builddate,
                             stability |-> stability])
             mapped == FilesToMap(st.path_to_components, component_id, entry.files)
         IN  IF mapped.ok
             THEN Ok([components |-> comps, path_to_components |-> mapped.value])
             ELSE mapped

\* alpm.rs 59-121
RECURSIVE LoadFromDbLoop(_, _, _)
LoadFromDbLoop(st, entries, t_now) ==
    IF entries = <<>> THEN Ok(st)
    ELSE LET next == AlpmStep(st, Head(entries), t_now)
         IN  IF next.ok THEN LoadFromDbLoop(next.value, Tail(entries), t_now)
             ELSE next

LoadedFromDb(entries, t_now) ==
    LoadFromDbLoop([components |-> <<>>, path_to_components |-> EmptyMap],
                   entries, t_now)

\* the files of a package: none; /usr/bin/sh and a path below the symlink
\* /bin, which canonicalizes to the same; an absolute path
AlpmFileLists ==
    {<<>>,
     <<[absolute |-> FALSE, canonical |-> Some(<<"usr", "bin", "sh">>)],
       [absolute |-> FALSE, canonical |-> Some(<<"usr", "bin", "sh">>)]>>,
     <<[absolute |-> TRUE, canonical |-> None]>>}

\* the build dates around a clock reading: older than the lookback, a month
\* ago, an hour ago
AlpmBuilddates(t_now) ==
    {t_now - STABILITY_LOOKBACK_DAYS * SECS_PER_DAY - 1,
     t_now - 30 * SECS_PER_DAY, t_now - 3600}

\* the entries of the local database: package directories of the BASE glibc
\* or bash, one without a BASE section, one whose BUILDDATE is no number, one
\* whose desc does not parse, and a plain file
AlpmEntries(t_now) ==
    {[is_dir |-> TRUE, parses |-> TRUE, base |-> Some(b), builddate |-> Some(d),
      files |-> f] :
        b \in {"glibc", "bash"}, d \in AlpmBuilddates(t_now), f \in AlpmFileLists}
    \cup {[is_dir |-> TRUE, parses |-> TRUE, base |-> None,
           builddate |-> Some(t_now), files |-> <<>>],
          [is_dir |-> TRUE, parses |-> TRUE, base |-> Some("bash"),
           builddate |-> None, files |-> <<>>],
          [is_dir |-> TRUE, parses |-> FALSE, base |-> None, builddate |-> None,
           files |-> <<>>],
          [is_dir |-> FALSE, parses |-> FALSE, base |-> None, builddate |-> None,
           files |-> <<>>]}

\* the orders of a sequence
Orderings(seq) ==
    {[i \in DOMAIN seq |-> seq[f[i]]] :
        f \in {g \in [DOMAIN seq -> DOMAIN seq] :
                \A i, j \in DOMAIN seq : g[i] = g[j] => i = j}}

\* alpm.rs 359-375: a line is the sequence of its characters
MatchValidHeader(line) ==
    IF Len(line) >= 2 /\ line[1] = "%" /\ line[Len(line)] = "%"
    THEN LET name == SubSeq(line, 2, Len(line) - 1)
             contains_section_name == name # <<>>
             is_well_formed == \A i \in DOMAIN name : name[i] \in {"A", "B"}
         IN  IF contains_section_name /\ is_well_formed THEN Some(name) ELSE None
    ELSE None

\* a parser that lets a repeated header go on with its section
IsDuplicate_Never(entries, new_header) == FALSE

\* alpm.rs 251-253
IsDuplicate(entries, new_header) == new_header \in DOMAIN entries

\* alpm.rs 247-266: one line; contents is the section lines are pushed to
FromStrLine(st, line) ==
    LET new_header == MatchValidHeader(line) IN
    IF IsSome(new_header)
    THEN IF IsDuplicate(st.entries, Unwrap(new_header)) THEN Err("Duplicate section")
         ELSE Ok([entries |->
                    IF Unwrap(new_header) \in DOMAIN st.entries THEN st.entries
                    ELSE Insert(st.entries, Unwrap(new_header), <<>>),
                  contents |-> new_header])
    ELSE IF IsNone(st.contents) THEN Err("File must start with a valid header")
    ELSE Ok([st EXCEPT !.entries[Unwrap(st.contents)] = Append(@, line)])

RECURSIVE FromStrLines(_, _)
FromStrLines(st, lines) ==
    IF lines = <<>> THEN Ok(st)
    ELSE LET next == FromStrLine(st, Head(lines))
         IN  IF next.ok THEN FromStrLines(next.value, Tail(lines)) ELSE next

\* alpm.rs 270-277: pop while the last line is empty
RECURSIVE PopTrailingEmpty(_)
PopTrailingEmpty(value) ==
    IF value # <<>> /\ value[Len(value)] = <<>>
    THEN PopTrailingEmpty(SubSeq(value, 1, Len(value) - 1))
    ELSE value

\* alpm.rs 241-280
FromStr(lines) ==
    LET read == FromStrLines([entries |-> EmptyMap, contents |-> None], lines) IN
    IF read.ok
    THEN Ok([h \in DOMAIN read.value.entries |->
                PopTrailingEmpty(read.value.entries[h])])
    ELSE read

\* the lines of a text: empty, the headers %A% and %B%, the lines %a%, %%, %
\* and %A, which are no headers, and the line x
DbLines ==
    {<<>>, <<"%", "A", "%">>, <<"%", "B", "%">>, <<"%", "a", "%">>, <<"%", "%">>,
     <<"%">>, <<"%", "A">>, <<"x">>}

AlpmIdle ==
    /\ alpm_entries = <<>> /\ alpm_now = 0 /\ alpm_repo = None /\ alpm_prev = None
    /\ apc = "idle" /\ db_text = <<>> /\ db_file = None /\ dpc = "idle"

AlpmInit ==
    /\ alpm_now = 400 * SECS_PER_DAY
    /\ \E n \in 0..MaxAlpmEntries : alpm_entries \in [1..n -> AlpmEntries(alpm_now)]
    /\ alpm_repo = None /\ alpm_prev = None /\ apc = "ready"
    /\ db_text = <<>> /\ db_file = None /\ dpc = "idle"

DbInit ==
    /\ alpm_entries = <<>> /\ alpm_now = 0 /\ alpm_repo = None /\ alpm_prev = None
    /\ apc = "idle"
    /\ \E n \in 0..MaxLines : db_text \in [1..n -> DbLines]
    /\ db_file = None /\ dpc = "ready"

alpmFrame == <<tie, packVars, layerVars, stabVars, kvVars, runVars, canonVars,
              bigVars, rpmVars, lossVars>>

\* alpm.rs 59-121
LoadFromDb ==
    /\ apc = "ready"
    /\ alpm_repo' = Some(LoadedFromDb(alpm_entries, alpm_now))
    /\ apc' = "loaded"
    /\ UNCHANGED <<alpmFrame, alpm_entries, alpm_now, alpm_prev, db_text, db_file, dpc>>

\* the same database loaded once more, its directory read in another order
LoadReordered ==
    /\ apc = "loaded" /\ alpm_prev = None
    /\ alpm_prev' = Some([entries |-> alpm_entries, repo |-> Unwrap(alpm_repo)])
    /\ alpm_entries' \in Orderings(alpm_entries)
    /\ alpm_repo' = Some(LoadedFromDb(alpm_entries', alpm_now))
    /\ UNCHANGED <<alpmFrame, alpm_now, apc, db_text, db_file, dpc>>

\* alpm.rs 241-280
ParseDbFile ==
    /\ dpc = "ready"
    /\ db_file' = Some(FromStr(db_text))
    /\ dpc' = "parsed"
    /\ UNCHANGED <<alpmFrame, alpm_entries, alpm_now, alpm_repo, alpm_prev, apc, db_text>>

--------------------------------------------------------------------------
(* src/packing.rs: calculate_merge_loss, in floating point *)

(* An f64 keeps 53 significant bits and rounds every conversion and every  *)
(* operation to the nearest value it can hold, ties to the even one.  The  *)
(* floats here do the same with MantissaBits significant bits, and sizes   *)
(* run past 2^MantissaBits as a u64 runs past 2^53.  A float is kept as an *)
(* integer over F64One; the stabilities are quarters, so that the product  *)
(* of two of them and every product with a size is an integer over it.     *)

\* 1.0
F64One == Pow(4, 2)

\* the largest size: the first integer a float cannot hold
MaxLossSize == Pow(2, MantissaBits) + 1

\* the position of the leading bit of n >= 1
RECURSIVE Log2(_)
Log2(n) == IF n < 2 THEN 0 ELSE 1 + Log2(n \div 2)

\* n >= 0 rounded to MantissaBits significant bits, ties to even
RoundTiesEven(n) ==
    IF n < Pow(2, MantissaBits) THEN n
    ELSE LET ulp == Pow(2, Log2(n) - MantissaBits + 1)
             q == n \div ulp
             r == n % ulp
         IN  IF 2 * r < ulp THEN q * ulp
             ELSE IF 2 * r > ulp THEN (q + 1) * ulp
             ELSE IF q % 2 = 0 THEN q * ulp ELSE (q + 1) * ulp

RoundF64(x) == IF x < 0 THEN 0 - RoundTiesEven(0 - x) ELSE RoundTiesEven(x)

\* `size as f64`
AsF64(n) == RoundF64(n * F64One)

AddF64(x, y) == RoundF64(x + y)

SubF64(x, y) == RoundF64(x - y)

MulF64(x, y) == RoundF64((x * y) \div F64One)

\* PackGroup::expected_value (packing.rs 62-64)
ExpectedValueF64(g) == MulF64(AsF64(g.size), g.stability)

\* calculate_merge_loss (packing.rs 232-241)
MergeLossF64(a, b) ==
    LET ev_separate == AddF64(ExpectedValueF64(a), ExpectedValueF64(b))
        combined_size == AsF64(a.size + b.size)
        combined_prob == MulF64(a.stability, b.stability)
        ev_merged == MulF64(combined_size, combined_prob)
    IN  SubF64(ev_separate, ev_merged)

\* the stabilities 0, 1/4, 1/2, 3/4 and 1
LossStabilities == {(k * F64One) \div 4 : k \in 0..4}

LossGroups == [size : 0..MaxLossSize, stability : LossStabilities]

LossIdle == loss_a = None /\ loss_b = None /\ loss_out = None /\ mpc = "idle"

LossInit ==
    /\ \E a \in LossGroups : loss_a = Some(a)
    /\ \E b \in LossGroups : loss_b = Some(b)
    /\ loss_out = None /\ mpc = "ready"

\* packing.rs 232-241
CallMergeLoss ==
    /\ mpc = "ready"
    /\ loss_out' = Some(MergeLossF64(Unwrap(loss_a), Unwrap(loss_b)))
    /\ mpc' = "returned"
    /\ UNCHANGED <<tie, packVars, layerVars, stabVars, kvVars, runVars, canonVars,
                   bigVars, rpmVars, alpmVars, loss_a, loss_b>>

ProvidersIdle == CanonIdle /\ BigIdle /\ RpmIdle /\ AlpmIdle /\ LossIdle

--------------------------------------------------------------------------
(* Specifications *)

Init == tie \in {"first", "last"} /\ PackInit /\ LayersIdle /\ StabIdle /\ KvIdle
        /\ RunIdle /\ ProvidersIdle

Next == PackStart \/ PackMerge \/ PackCollect

Spec == Init /\ [][Next]_vars

InitLayers == tie \in {"first", "last"} /\ PackIdle /\ LayersInit /\ StabIdle /\ KvIdle
        /\ RunIdle /\ ProvidersIdle

NextLayers == Pack \/ Write \/ Rerun

SpecLayers == InitLayers /\ [][NextLayers]_vars

InitStability == tie = "first" /\ PackIdle /\ LayersIdle /\ StabInit /\ KvIdle
        /\ RunIdle /\ ProvidersIdle

NextStability == CallStability

SpecStability == InitStability /\ [][NextStability]_vars

InitLabels == tie = "first" /\ PackIdle /\ LayersIdle /\ StabIdle /\ KvInit
        /\ RunIdle /\ ProvidersIdle

NextLabels == Parse

SpecLabels == InitLabels /\ [][NextLabels]_vars

InitRun == tie = "first" /\ PackIdle /\ LayersIdle /\ StabIdle /\ KvIdle
        /\ RunInit /\ ProvidersIdle

NextRun ==
    \/ ParseArgs \/ InitTracing \/ SetHandler
    \/ Epoch \/ LoadConfig \/ ParseAnnotations \/ BuildImageConfig
    \/ OpenRootfs \/ Scan \/ LoadComponents \/ IntoComponents \/ PackStep
    \/ NewBuilder \/ OpenOutput \/ BuildWrite \/ BuildEnd \/ Return
    \/ Sigint \/ HandlerExit

SpecRun == InitRun /\ [][NextRun]_vars

InitCanon == tie = "first" /\ PackIdle /\ LayersIdle /\ StabIdle /\ KvIdle
        /\ RunIdle /\ CanonInit /\ BigIdle /\ RpmIdle /\ AlpmIdle /\ LossIdle

NextCanon ==
    \/ CallFirst \/ CallWarm \/ CallToggled \/ CallCold \/ CallAgain
    \/ DirEnter \/ DirAfterParent \/ DirAfterTarget \/ ParentReturn

InitBigfiles == tie = "first" /\ PackIdle /\ LayersIdle /\ StabIdle /\ KvIdle
        /\ RunIdle /\ CanonIdle /\ BigInit /\ RpmIdle /\ AlpmIdle /\ LossIdle

NextBigfiles == Load

SpecBigfiles == InitBigfiles /\ [][NextBigfiles]_vars

InitRpm == tie = "first" /\ PackIdle /\ LayersIdle /\ StabIdle /\ KvIdle
        /\ RunIdle /\ CanonIdle /\ BigIdle /\ RpmInit /\ AlpmIdle /\ LossIdle

NextRpm == LoadFromPackages \/ ClaimsForPath

SpecRpm == InitRpm /\ [][NextRpm]_vars

InitAlpm == tie = "first" /\ PackIdle /\ LayersIdle /\ StabIdle /\ KvIdle
        /\ RunIdle /\ CanonIdle /\ BigIdle /\ RpmIdle /\ AlpmInit /\ LossIdle

NextAlpm == LoadFromDb \/ LoadReordered

SpecAlpm == InitAlpm /\ [][NextAlpm]_vars

InitDbFile == tie = "first" /\ PackIdle /\ LayersIdle /\ StabIdle /\ KvIdle
        /\ RunIdle /\ CanonIdle /\ BigIdle /\ RpmIdle /\ DbInit /\ LossIdle

NextDbFile == ParseDbFile

SpecDbFile == InitDbFile /\ [][NextDbFile]_vars

InitLoss == tie = "first" /\ PackIdle /\ LayersIdle /\ StabIdle /\ KvIdle
        /\ RunIdle /\ CanonIdle /\ BigIdle /\ RpmIdle /\ AlpmIdle /\ LossInit

NextLoss == CallMergeLoss

SpecLoss == InitLoss /\ [][NextLoss]_vars

SpecCanon == InitCanon /\ [][NextCanon]_vars

\* a call in progress takes its next step
SpecCanonFair ==
    SpecCanon /\ WF_vars(DirEnter \/ DirAfterParent \/ DirAfterTarget \/ ParentReturn)

\* the threads of the process are scheduled and each step of main returns
SpecRunFair == SpecRun /\ WF_vars(NextRun)

--------------------------------------------------------------------------
(* Claims about calculate_packing (Spec) *)

\* how often index i occurs in the groups gs
RECURSIVE Occurrences(_, _)
Occurrences(gs, i) ==
    IF Len(gs) = 0 THEN 0
    ELSE Cardinality({p \in DOMAIN gs[1].indices : gs[1].indices[p] = i})
         + Occurrences(Tail(gs), i)

Returned == pc = "done" /\ Len(items) >= 1 /\ max_groups >= 1

\* C1: for a non-empty input and max_groups >= 1 the returned groups
\* partition the input: every index 0..N-1 is in exactly one group, no index
\* outside 0..N-1 is in any, and no group is empty.
C1_Partition ==
    Returned =>
        /\ \A i \in 0..(Len(items) - 1) : Occurrences(result, i) = 1
        /\ \A g \in DOMAIN result :
              /\ Len(result[g].indices) >= 1
              /\ \A p \in DOMAIN result[g].indices :
                    result[g].indices[p] \in 0..(Len(items) - 1)

C1_Witness ==
    /\ Returned
    /\ Len(result) >= 2
    /\ \E g \in DOMAIN result : Len(result[g].indices) >= 2

\* a candidate of the heap whose two groups are both still active
HasLiveCandidate ==
    \E k \in DOMAIN heap :
        /\ IsSome(groups[heap[k].group_a_id + 1])
        /\ IsSome(groups[heap[k].group_b_id + 1])

\* C2: for N >= 1 items and max_groups K >= 1 exactly min(N, K) groups are
\* returned: while more than K groups are active the heap holds a candidate
\* of two active groups (the loop does not run dry), and when K >= N every
\* group holds exactly one index.
C2_GroupCount ==
    /\ (pc = "loop" /\ active_count > max_groups) => HasLiveCandidate
    /\ Returned =>
          /\ Len(result) = Min({Len(items), max_groups})
          /\ max_groups >= Len(items) =>
                \A g \in DOMAIN result : Len(result[g].indices) = 1

C2_Witness ==
    /\ Returned
    /\ Len(items) >= max_groups + 2
    /\ Len(result) = max_groups

\* C3: the returned groups are ordered by stability descending.
C3_SortedDesc ==
    pc = "done" =>
        \A g \in DOMAIN result :
            g + 1 \in DOMAIN result => result[g].stability >= result[g + 1].stability

C3_Witness ==
    /\ pc = "done"
    /\ Len(result) >= 2
    /\ result[1].stability > result[Len(result)].stability
    /\ Len(result[1].indices) >= 2

--------------------------------------------------------------------------
(* Claims about pack_components (SpecLayers) *)

\* the names a layer name is joined from
RECURSIVE SplitName(_, _)
SplitName(s, cur) ==
    IF Len(s) = 0 THEN <<cur>>
    ELSE IF s[1] = Space THEN <<cur>> \o SplitName(Tail(s), <<>>)
    ELSE SplitName(Tail(s), Append(cur, s[1]))

Members(layer) == SplitName(layer[1], <<>>)
IsMerged(layer) == Len(Members(layer)) >= 2

\* what C4 compares of a run: names, file sets and clamps, layer by layer
LayerView(ls) ==
    [i \in DOMAIN ls |->
        [name |-> ls[i][1], files |-> ls[i][2].files,
         mtime_clamp |-> ls[i][2].mtime_clamp]]

\* C4: two runs of pack_components on the same components and max_layers
\* return the same layers (names, order, file sets, mtime_clamp), whatever
\* order the map is iterated in.
C4_Deterministic ==
    IsSome(prev_layers) => LayerView(layers) = LayerView(Unwrap(prev_layers))

C4_Witness ==
    /\ IsSome(prev_layers)
    /\ order # SortedNames(DOMAIN components)
    /\ Len(layers) >= 2
    /\ \E i \in DOMAIN layers : IsMerged(layers[i])

Packed == lpc \in {"packed", "written"} /\ ~panicked

\* C5 as claimed: layers are ordered by stability descending and, among
\* layers of equal stability, by the name of their first member.
C5_ByFirstMemberName ==
    Packed =>
        \A i, j \in DOMAIN layers :
            i < j =>
                /\ layers[i][2].stability >= layers[j][2].stability
                /\ layers[i][2].stability = layers[j][2].stability =>
                      StrLess(Members(layers[i])[1], Members(layers[j])[1])

\* C5 amended: layers are ordered by stability descending; among layers of
\* equal stability the layers of a single component come in name order, and
\* before every merged layer.
C5_SinglesByName ==
    Packed =>
        \A i, j \in DOMAIN layers :
            i < j =>
                /\ layers[i][2].stability >= layers[j][2].stability
                /\ layers[i][2].stability = layers[j][2].stability =>
                      /\ ~(IsMerged(layers[i]) /\ ~IsMerged(layers[j]))
                      /\ (~IsMerged(layers[i]) /\ ~IsMerged(layers[j]))
                            => StrLess(layers[i][1], layers[j][1])

C5_Witness ==
    /\ Packed
    /\ \E i, j \in DOMAIN layers :
          /\ i < j
          /\ layers[i][2].stability = layers[j][2].stability
          /\ ~IsMerged(layers[i]) /\ IsMerged(layers[j])
          /\ StrLess(Members(layers[j])[1], layers[i][1])
          /\ \A p \in DOMAIN layers[i][2].files : layers[i][2].files[p].size = 10
          /\ \A p \in DOMAIN layers[j][2].files : layers[j][2].files[p].size = 1

\* the clamps of the components a layer is made of
MemberClamps(layer) ==
    {components[Members(layer)[m]].mtime_clamp : m \in DOMAIN Members(layer)}

--------------------------------------------------------------------------
(* Claims about calculate_stability (SpecStability) *)

\* the time series the claims speak of, as a set
Series == IF Len(changelog_times) = 0 THEN {buildtime}
          ELSE {changelog_times[k] : k \in DOMAIN changelog_times}

\* its timestamps inside the lookback window
InWindow == {t \in Series : t >= now - STABILITY_LOOKBACK_DAYS * SECS_PER_DAY}

\* C7: calculate_stability returns a value f with 0.0 <= f <= 1.0.
C7_UnitRange ==
    IsSome(stab_result) =>
        /\ Unwrap(stab_result).ok
        /\ Unwrap(stab_result).value >= 0
        /\ Unwrap(stab_result).value <= FixedOne

C7_Witness ==
    /\ IsSome(stab_result)
    /\ Unwrap(stab_result).value > 0
    /\ Unwrap(stab_result).value < VeryStable
    /\ Len(changelog_times) >= 2

\* C8: the series is changelog_times, or [buildtime] when that is empty; with
\* no timestamp of the series inside the lookback window the result is 0.99;
\* otherwise, with the oldest one inside it less than a day before now, 0.0.
C8_Boundaries ==
    IsSome(stab_result) =>
        /\ InWindow = {} => Unwrap(stab_result) = Ok(VeryStable)
        /\ (InWindow # {} /\ now - Min(InWindow) < SECS_PER_DAY)
              => Unwrap(stab_result) = Ok(0)

C8_Witness ==
    /\ IsSome(stab_result)
    /\ Len(changelog_times) = 0
    /\ InWindow # {}
    /\ buildtime < now
    /\ now - buildtime < SECS_PER_DAY
    /\ now > STABILITY_LOOKBACK_DAYS * SECS_PER_DAY

\* The 0.99 boundary of C8 reached through the changelog: every timestamp
\* given is older than the lookback window.
C8_WitnessOld ==
    /\ IsSome(stab_result)
    /\ Len(changelog_times) >= 1
    /\ InWindow = {}

\* C9 as claimed: whenever buildtime > now the result is 0.99 or 0.0.
C9_FutureBuildAnyChangelog ==
    (IsSome(stab_result) /\ buildtime > now) =>
        /\ Unwrap(stab_result).ok
        /\ Unwrap(stab_result).value \in {VeryStable, 0}

\* C9 amended: with an empty changelog and buildtime > now the call returns
\* without an error, and the value is 0.0.
C9_FutureBuildNoChangelog ==
    (IsSome(stab_result) /\ buildtime > now /\ Len(changelog_times) = 0) =>
        Unwrap(stab_result) = Ok(0)

C9_Witness ==
    /\ IsSome(stab_result)
    /\ buildtime > now
    /\ Len(changelog_times) = 0
    /\ now > STABILITY_LOOKBACK_DAYS * SECS_PER_DAY

--------------------------------------------------------------------------
(* Claims about parse_key_value_pairs (SpecLabels) *)

\* a pair the function accepts: KEY=VALUE with a key, or one ending in '-'
\* that holds no '='
IsValidPair(pair) ==
    IF \E p \in DOMAIN pair : pair[p] = Equals
    THEN pair[1] # Equals
    ELSE Len(pair) >= 1 /\ pair[Len(pair)] = Dash

AllValid == \A p \in DOMAIN pairs : IsValidPair(pairs[p])

ClearPositions == {p \in DOMAIN pairs : pairs[p] = <<Dash>>}

AfterLastClear == SubSeq(pairs, Max(ClearPositions) + 1, Len(pairs))

\* C10: for a list of valid pairs that holds a bare "-", the result is that
\* of the pairs after the last "-" applied to an empty map, whatever the base
\* map and the pairs before it.
C10_ClearForgets ==
    (IsSome(parsed) /\ AllValid /\ ClearPositions # {}) =>
        /\ Unwrap(parsed).ok
        /\ Unwrap(parsed) = ParseKeyValuePairs(AfterLastClear, EmptyMap)

C10_Witness ==
    /\ IsSome(parsed)
    /\ AllValid
    /\ base_map # EmptyMap
    /\ Len(pairs) >= 3
    /\ pairs[2] = <<Dash>>
    /\ IsSome(SplitOnce(pairs[1]))
    /\ Unwrap(parsed).map # EmptyMap

\* the key a valid pair names: the text before its first '=', or the pair
\* without its trailing '-'
KeyOf(pair) ==
    IF \E p \in DOMAIN pair : pair[p] = Equals
    THEN SubSeq(pair, 1, Min({p \in DOMAIN pair : pair[p] = Equals}) - 1)
    ELSE SubSeq(pair, 1, Len(pair) - 1)

\* the value a KEY=VALUE pair gives: the text after its first '='
ValueOf(pair) ==
    SubSeq(pair, Min({p \in DOMAIN pair : pair[p] = Equals}) + 1, Len(pair))

IsSet(pair) == \E p \in DOMAIN pair : pair[p] = Equals

NamedKeys == {KeyOf(pairs[p]) : p \in DOMAIN pairs}

\* the last pair of the list that names key k
LastNaming(k) == pairs[Max({p \in DOMAIN pairs : KeyOf(pairs[p]) = k})]

\* C11: for a list of valid pairs without a bare "-", the call succeeds, each
\* key named by a pair ends with the outcome of the last pair naming it
\* (KEY=VALUE: present with that value; KEY-: absent), and each key of the
\* base map that no pair names keeps its base value; the empty list returns
\* the base map.
C11_ListOrder ==
    (IsSome(parsed) /\ AllValid /\ ClearPositions = {}) =>
        LET map == Unwrap(parsed).map
        IN  /\ Unwrap(parsed).ok
            /\ DOMAIN map = (DOMAIN base_map \ NamedKeys)
                                \cup {k \in NamedKeys : IsSet(LastNaming(k))}
            /\ \A k \in DOMAIN map :
                    map[k] = IF k \in NamedKeys THEN ValueOf(LastNaming(k))
                             ELSE base_map[k]
            /\ (pairs = <<>> => map = base_map)

\* a key of the base map is set and then removed, a second key is set twice
\* with different values, and a third key of the base map is named by no pair
C11_Witness ==
    /\ IsSome(parsed)
    /\ AllValid
    /\ ClearPositions = {}
    /\ Len(pairs) >= 2
    /\ \E p, q \in DOMAIN pairs :
            /\ p < q
            /\ KeyOf(pairs[p]) = KeyOf(pairs[q])
            /\ KeyOf(pairs[p]) \in DOMAIN base_map
            /\ IsSet(pairs[p])
            /\ pairs[p] # pairs[q]
    /\ DOMAIN base_map \ NamedKeys # {}
    /\ Unwrap(parsed).ok

\* C12: the call fails, returning no map, whenever some pair of the list, at
\* any position, has an empty key before its first '=' or has neither an '='
\* nor a trailing '-'.
C12_InvalidPairFails ==
    (IsSome(parsed) /\ ~AllValid) =>
        /\ ~Unwrap(parsed).ok
        /\ Unwrap(parsed).map = EmptyMap

\* the malformed pair "=-" comes last, after two pairs the function accepts
C12_Witness ==
    /\ IsSome(parsed)
    /\ Len(pairs) = 3
    /\ IsValidPair(pairs[1])
    /\ IsValidPair(pairs[2])
    /\ pairs[3] = <<Equals, Dash>>
    /\ ~Unwrap(parsed).ok

--------------------------------------------------------------------------
(* Claims about main and run (SpecRun, SpecRunFair) *)

\* config parsing, label and annotation parsing, the rootfs scan, component
\* loading and packing
PrepStages ==
    {"config", "annotations", "image_config", "open_rootfs", "scan", "load",
     "pack"}

\* the output path is untouched and stdout is empty
NoOutput == ~output_created /\ file_bytes = 0 /\ stdout_bytes = 0

\* C13: the output file is created and the first byte is written only after
\* config parsing, label and annotation parsing, the scan, component loading
\* and packing have all succeeded; a failure in one of those steps ends the
\* run with an error, the output path untouched and stdout empty.
C13_OutputAfterPacking ==
    /\ ~NoOutput => PrepStages \subseteq passed
    /\ (IsSome(exit) /\ Unwrap(exit).by = "main" /\ stage \in PrepStages) =>
            (Unwrap(exit).code # 0 /\ NoOutput)

\* packing fails in a run that was given --output
C13_Witness ==
    /\ IsSome(exit)
    /\ Unwrap(exit) = Exited("main", 1)
    /\ stage = "pack"
    /\ args_output
    /\ NoOutput

\* the steps of main before the handler is installed
BeforeHandler == {"parse_args", "init_tracing", "set_handler"}

\* C14 as claimed: a SIGINT received at whatever stage ends the process with
\* exit code 130.
C14_AnyStage130 ==
    (IsSome(exit) /\ sigints # <<>>) =>
        (Unwrap(exit).kind = "exit" /\ Unwrap(exit).code = HandlerExitCode)

\* C14: a SIGINT received once the handler is installed (any step of run:
\* scan, packing, writing) goes to the handler thread, and the process then
\* ends, with exit code 130 unless the main thread ends it first; a SIGINT
\* received before that (argument parsing, tracing setup, the installation)
\* never reaches the handler: it kills the process or, for PID 1, is ignored.
C14_HandledOnceInstalled ==
    /\ [](\A i \in DOMAIN sigints :
            (sigints[i].did = "handler") <=> (sigints[i].at \notin BeforeHandler))
    /\ []((IsSome(exit) /\ \E i \in DOMAIN sigints : sigints[i].did = "handler") =>
            \/ Unwrap(exit) = Exited("handler", 130)
            \/ Unwrap(exit).by = "main")
    /\ []((IsSome(exit) /\ Unwrap(exit).by = "handler") =>
            \E i \in DOMAIN sigints : sigints[i].did = "handler")
    /\ (handler_pending ~> IsSome(exit))

\* a SIGINT arrives during the scan and the handler ends the process
C14_Witness ==
    /\ IsSome(exit)
    /\ Unwrap(exit) = Exited("handler", 130)
    /\ stage = "scan"
    /\ \E i \in DOMAIN sigints : sigints[i].at = "scan"

--------------------------------------------------------------------------
(* Claims about canonicalize_parent_path (SpecCanon) *)

CanonOutcome == Unwrap(canon_result)

\* C15 as claimed: when the call succeeds on a path other than the root, the
\* result ends in the final component of the input; and the call returns the
\* same, from an empty cache, for a rootfs that differs only in holding the
\* leaf (the returned path) as a symlink, with any target, or as a regular
\* file.
C15_LeafNeverMatters ==
    /\ (IsSome(canon_result) /\ CanonOutcome.kind = "ok" /\ canon_path # RootPath) =>
            /\ CanonOutcome.path # RootPath
            /\ CanonOutcome.path[Len(CanonOutcome.path)] = canon_path[Len(canon_path)]
    /\ cpc = "done_toggled" => CanonOutcome = Unwrap(first_result)

\* C15: when the call succeeds on a path other than the root, the result ends
\* in the final component of the input, and the call returns the same for a
\* rootfs that differs in the leaf alone unless resolving the parent has
\* itself read the entry at the leaf's path.
C15_LeafPreserved ==
    /\ (IsSome(canon_result) /\ CanonOutcome.kind = "ok" /\ canon_path # RootPath) =>
            /\ CanonOutcome.path # RootPath
            /\ CanonOutcome.path[Len(CanonOutcome.path)] = canon_path[Len(canon_path)]
    /\ (cpc = "done_toggled" /\ Unwrap(first_result).path \notin first_looked_up) =>
            CanonOutcome = Unwrap(first_result)

\* /a -> /b, and the leaf /b/a has become a symlink: /a/a still gives /b/a
C15_Witness ==
    /\ cpc = "done_toggled"
    /\ canon_path = <<1, 1>>
    /\ IsSymlink(file_map, <<1>>)
    /\ IsSymlink(file_map, <<2, 1>>)
    /\ <<2, 1>> \notin first_looked_up
    /\ CanonOutcome = CanonOk(<<2, 1>>)

\* /b/a -> /b: /b/a/a gives /b/a, and /b/a/a once /b/a is a regular file
C15_SelfLinkWitness ==
    /\ cpc = "done_toggled"
    /\ canon_path = <<2, 1, 1>>
    /\ first_result = Some(CanonOk(<<2, 1>>))
    /\ CanonOutcome = CanonOk(<<2, 1, 1>>)

IsChain == file_map \in ChainMaps

\* the links of the chain in file_map
ChainLen == Cardinality(DOMAIN file_map) - 1

ChainIsCyclic ==
    file_map[<<ChainName(ChainLen)>>] = SymlinkTo(TRUE, <<ChainName(1)>>)

\* the nested symlink hops the parent of canon_path needs in the chain: one
\* per link from its first component on; more than any limit in a cycle
HopsNeeded ==
    IF ChainIsCyclic THEN MAX_SYMLINK_DEPTH + 100
    ELSE ChainLen - (canon_path[1] - ChainName(0)) + 1

TooManyLevels == CanonOutcome = CanonErr

CallRunning == cpc \in {"first", "warm", "toggled", "cold", "again"}

C16_WarmWitness ==
    /\ IsSome(canon_result)
    /\ IsChain
    /\ cpc = "done_warm"
    /\ ~ChainIsCyclic
    /\ HopsNeeded = MAX_SYMLINK_DEPTH + 1
    /\ CanonOutcome.kind = "ok"

\* C28: for a fixed FileMap, canonicalize_parent_path returns the same
\* outcome for a path with an empty cache as with the cache earlier calls
\* have filled.  first_result is what the call returned with the cache the
\* first call left, canon_result what it returns with an empty cache.
C28_CacheOnlyAccelerates ==
    cpc = "done_cold" => CanonOutcome = Unwrap(first_result)

\* without a symlink chain longer than the limit the two outcomes agree
C28_AgreesWithinLimit ==
    (cpc = "done_cold" /\ (IsChain => HopsNeeded <= MAX_SYMLINK_DEPTH \/ ChainIsCyclic))
        => CanonOutcome = Unwrap(first_result)

\* a chain of 41 hops: resolved with the cache the call on its second link
\* left, "too many levels of symbolic links" with an empty cache
C28_FailingInput ==
    /\ cpc = "done_cold"
    /\ IsChain /\ ~ChainIsCyclic
    /\ HopsNeeded = MAX_SYMLINK_DEPTH + 1
    /\ Unwrap(first_result).kind = "ok"
    /\ TooManyLevels

\* a symlinked directory resolved from the cache and again without it
C28_AgreeWitness ==
    /\ cpc = "done_cold"
    /\ ~IsChain
    /\ \E p \in DOMAIN cache : IsSymlink(file_map, p)
    /\ CanonOutcome.kind = "ok"
    /\ CanonOutcome = Unwrap(first_result)
    /\ CanonOutcome.path # canon_path

\* the FileMap holds a symlink at path
SymlinkEntry(path) == path \in DOMAIN file_map /\ file_map[path].file_type = "Symlink"

\* the proper ancestors of a path, the root left out
ProperAncestors(path) == {SubSeq(path, 1, n) : n \in 1..(Len(path) - 1)}

\* C29: when canonicalize_parent_path succeeds, no proper ancestor of the
\* returned path is a symlink of the FileMap and the path holds no ".."
\* component; canonicalizing the returned path in its turn returns it
\* unchanged.
C29_CanonicalResult ==
    /\ (IsSome(canon_result) /\ CanonOutcome.kind = "ok") =>
          /\ \A q \in ProperAncestors(CanonOutcome.path) : ~SymlinkEntry(q)
          /\ \A i \in DOMAIN CanonOutcome.path : CanonOutcome.path[i] # DotDot
    /\ cpc = "done_again" =>
          /\ canon_path = Unwrap(first_result).path
          /\ CanonOutcome = CanonOk(canon_path)

\* a path of three components reached through a symlink was returned, and
\* canonicalizing it again has returned it
C29_Witness ==
    /\ cpc = "done_again"
    /\ Len(canon_path) >= 2
    /\ \E p \in DOMAIN cache :
          /\ SymlinkEntry(p)
          /\ cache[p] # p
          /\ cache[p] \in ProperAncestors(canon_path)
    /\ CanonOutcome = CanonOk(canon_path)

--------------------------------------------------------------------------
(* BigfilesRepo::load: claims C17, C18 *)

IsBig(file_info) == file_info.file_type = "File" /\ file_info.size >= MIN_SIZE

ClaimedPaths ==
    IF IsSome(big_repo) THEN DOMAIN Unwrap(big_repo).path_to_component ELSE {}

BigComponentOf(path) == Unwrap(big_repo).path_to_component[path]

BigNameOf(path) == Unwrap(big_repo).components[BigComponentOf(path) + 1]

SameInode(p, q) ==
    /\ big_files[p].nlink > 1 /\ big_files[q].nlink > 1
    /\ big_files[p].ino = big_files[q].ino

Basename(path) == <<path[Len(path)]>>

\* C17: after load the claimed paths are the regular files of size >= 1 MiB,
\* each with one component; two of them that are not hardlinks of one inode
\* have different components with different names; and where no big file is
\* hardlinked, the first file in path order with a basename is named by the
\* basename and the later ones by their path without the leading '/'.
C17_OwnComponent ==
    bpc = "loaded" =>
        /\ \A p \in DOMAIN big_files : IsBig(big_files[p]) <=> p \in ClaimedPaths
        /\ \A p, q \in ClaimedPaths :
                (p # q /\ ~SameInode(p, q)) =>
                    /\ BigComponentOf(p) # BigComponentOf(q)
                    /\ BigNameOf(p) # BigNameOf(q)
        /\ (\A p \in ClaimedPaths : big_files[p].nlink = 1) =>
                \A p \in ClaimedPaths :
                    BigNameOf(p) =
                        IF \E q \in ClaimedPaths :
                                PathLess(q, p) /\ Basename(q) = Basename(p)
                        THEN p ELSE Basename(p)

\* the two big files /a/f and /f, not hardlinked, are loaded
C17_FailingInput ==
    /\ bpc = "loaded"
    /\ {<<1, 3>>, <<3>>} \subseteq DOMAIN big_files
    /\ IsBig(big_files[<<1, 3>>]) /\ big_files[<<1, 3>>].nlink = 1
    /\ IsBig(big_files[<<3>>]) /\ big_files[<<3>>].nlink = 1

HardlinkGroup(path) ==
    {q \in DOMAIN big_files :
        IsHardlinkedBig(big_files[q]) /\ big_files[q].ino = big_files[path].ino}

\* C18: after load, the big hardlinked paths of one inode are all claimed by
\* one component, and load has created a component for one of them only.
C18_HardlinksOneComponent ==
    bpc = "loaded" =>
        \A p \in DOMAIN big_files :
            IsHardlinkedBig(big_files[p]) =>
                /\ \A q \in HardlinkGroup(p) :
                        q \in ClaimedPaths /\ BigComponentOf(q) = BigComponentOf(p)
                /\ Cardinality({i \in DOMAIN created :
                                    created[i].path \in HardlinkGroup(p)}) = 1

\* /a/f and /g share an inode, /b/f and /f another: two components
C18_Witness ==
    /\ bpc = "loaded"
    /\ BigPaths \subseteq DOMAIN big_files
    /\ HardlinkGroup(<<1, 3>>) = {<<1, 3>>, <<4>>}
    /\ HardlinkGroup(<<2, 3>>) = {<<2, 3>>, <<3>>}
    /\ BigComponentOf(<<4>>) = BigComponentOf(<<1, 3>>)
    /\ BigComponentOf(<<3>>) = BigComponentOf(<<2, 3>>)
    /\ BigComponentOf(<<3>>) # BigComponentOf(<<4>>)
    /\ Len(created) = 2

--------------------------------------------------------------------------
(* RpmRepo: claims C19, C20 *)

\* the packages that go to the component with this id
PackagesOf(id) ==
    {k \in DOMAIN packages :
        PkgComponentName(packages[k]) = Unwrap(rpm_repo).components[id + 1].name}

\* the type a package recorded the path with, read off the octal digits of
\* the mode above the permission bits: 04 directory, 10 file, 12 symlink
RecordedAs(pkg, path, file_type) ==
    /\ path \in DOMAIN pkg.files
    /\ pkg.files[path] \div 4096 =
            (CASE file_type = "Directory" -> 4
               [] file_type = "File" -> 8
               [] file_type = "Symlink" -> 10)

Recorders(path) == {k \in DOMAIN packages : path \in DOMAIN packages[k].files}

\* C19: every component claims_for_path(path, t) returns has a package that
\* recorded the path with type t; a path recorded as a symlink only is not
\* claimed for File, one recorded as a file only is not claimed for Symlink;
\* and a path at or below an RPM database directory is claimed for no type.
C19_ClaimsByType ==
    IsSome(query) =>
        LET q == Unwrap(query) IN
        /\ \A i \in DOMAIN q.claims :
                \E k \in PackagesOf(q.claims[i]) :
                    RecordedAs(packages[k], q.path, q.file_type)
        /\ (q.file_type = "File"
            /\ \A k \in Recorders(q.path) : RecordedAs(packages[k], q.path, "Symlink"))
                => q.claims = <<>>
        /\ (q.file_type = "Symlink"
            /\ \A k \in Recorders(q.path) : RecordedAs(packages[k], q.path, "File"))
                => q.claims = <<>>
        /\ (\E rpmdb \in RPMDB_PATHS : StartsWith(q.path, rpmdb)) => q.claims = <<>>

\* bash records /usr/bin/sh as a symlink and zsh as a file: a query for the
\* file is answered with zsh alone
C19_Witness ==
    /\ IsSome(query)
    /\ Len(packages) = 2
    /\ RecordedAs(packages[1], <<"usr", "bin", "sh">>, "Symlink")
    /\ RecordedAs(packages[2], <<"usr", "bin", "sh">>, "File")
    /\ PkgComponentName(packages[1]) # PkgComponentName(packages[2])
    /\ Unwrap(query).path = <<"usr", "bin", "sh">>
    /\ Unwrap(query).file_type = "File"
    /\ Unwrap(query).claims = <<1>>

\* a file recorded below /usr/share/rpm is asked for with its own type
C19_RpmdbWitness ==
    /\ IsSome(query)
    /\ \E k \in DOMAIN packages :
            RecordedAs(packages[k], <<"usr", "share", "rpm", "db">>, "File")
    /\ Unwrap(query).path = <<"usr", "share", "rpm", "db">>
    /\ Unwrap(query).file_type = "File"
    /\ Unwrap(query).claims = <<>>

\* C20: after load_from_packages there is one component per component name
\* of the packages; its mtime clamp is the largest build time of its
\* packages and its stability is the one of the first of them processed.
C20_MaxClampFirstStability ==
    rpc \in {"loaded", "queried"} =>
        LET comps == Unwrap(rpm_repo).components IN
        /\ {comps[i].name : i \in DOMAIN comps}
                = {PkgComponentName(packages[k]) : k \in DOMAIN packages}
        /\ \A i, j \in DOMAIN comps : comps[i].name = comps[j].name => i = j
        /\ \A i \in DOMAIN comps :
                LET first == packages[Min(PackagesOf(i - 1))] IN
                /\ comps[i].buildtime =
                        Max({packages[k].buildtime : k \in PackagesOf(i - 1)})
                /\ comps[i].stability =
                        CalculateStability(first.changelog_times, first.buildtime,
                                           rpm_now).value

\* two packages of bash-5-1.src.rpm: the second is built later and has
\* another stability; the component has the build time of the second and
\* the stability of the first
C20_Witness ==
    /\ rpc = "loaded"
    /\ Len(packages) = 2
    /\ packages[1].sourcerpm = Some(<<"bash", "5", "1">>)
    /\ packages[2].sourcerpm = Some(<<"bash", "5", "1">>)
    /\ packages[1].name # packages[2].name
    /\ packages[2].buildtime > packages[1].buildtime
    /\ CalculateStability(packages[2].changelog_times, packages[2].buildtime,
                          rpm_now)
        # CalculateStability(packages[1].changelog_times, packages[1].buildtime,
                             rpm_now)
    /\ Len(Unwrap(rpm_repo).components) = 1
    /\ Unwrap(rpm_repo).components[1].buildtime = packages[2].buildtime
    /\ Unwrap(rpm_repo).components[1].stability =
            CalculateStability(packages[1].changelog_times, packages[1].buildtime,
                               rpm_now).value

--------------------------------------------------------------------------
(* AlpmComponentsRepo, LocalAlpmDbFile: claims C21, C22 (SpecAlpm,
   SpecDbFile) *)

\* the package directories of a BASE
DirsOfBase(entries, base) ==
    {k \in DOMAIN entries : entries[k].is_dir /\ entries[k].base = Some(base)}

\* name -> (mtime_clamp, stability) of a loaded repo
ValuesByName(repo) ==
    {<<repo.components[i].name, repo.components[i].builddate,
       repo.components[i].stability>> : i \in DOMAIN repo.components}

\* C21: after a load_from_db that succeeds there is one component per BASE,
\* its mtime clamp is the largest build date and its stability the least
\* stability of the packages of that BASE; and a load that reads the same
\* entries in another order succeeds as well and gives every BASE the same
\* two values.
C21_MaxMinByBase ==
    /\ (IsSome(alpm_repo) /\ Unwrap(alpm_repo).ok) =>
        LET comps == Unwrap(alpm_repo).value.components IN
        /\ \A i, j \in DOMAIN comps : comps[i].name = comps[j].name => i = j
        /\ {comps[i].name : i \in DOMAIN comps}
            = {Unwrap(alpm_entries[k].base) :
                    k \in {n \in DOMAIN alpm_entries : alpm_entries[n].is_dir}}
        /\ \A i \in DOMAIN comps :
            LET dirs == DirsOfBase(alpm_entries, comps[i].name) IN
            /\ comps[i].builddate
                = Max({Unwrap(alpm_entries[k].builddate) : k \in dirs})
            /\ comps[i].stability
                = Min({CalculateStability(<<>>, Unwrap(alpm_entries[k].builddate),
                                          alpm_now).value : k \in dirs})
    /\ IsSome(alpm_prev) =>
        /\ Unwrap(alpm_prev).repo.ok = Unwrap(alpm_repo).ok
        /\ Unwrap(alpm_repo).ok =>
                ValuesByName(Unwrap(alpm_prev).repo.value)
                    = ValuesByName(Unwrap(alpm_repo).value)

\* two packages of one BASE, the first built later and less stable than the
\* second, loaded in this order after a load in the other order
C21_Witness ==
    /\ IsSome(alpm_prev)
    /\ Len(alpm_entries) = 2
    /\ Unwrap(alpm_prev).entries = <<alpm_entries[2], alpm_entries[1]>>
    /\ Unwrap(alpm_repo).ok
    /\ alpm_entries[1].is_dir /\ alpm_entries[2].is_dir
    /\ alpm_entries[1].base = alpm_entries[2].base
    /\ Unwrap(alpm_entries[1].builddate) > Unwrap(alpm_entries[2].builddate)
    /\ CalculateStability(<<>>, Unwrap(alpm_entries[1].builddate), alpm_now).value
        < CalculateStability(<<>>, Unwrap(alpm_entries[2].builddate), alpm_now).value
    /\ Len(Unwrap(alpm_repo).value.components) = 1

\* a line "%NAME%" with a name of one or more uppercase letters
IsHeaderLine(line) ==
    /\ Len(line) >= 3
    /\ line[1] = "%" /\ line[Len(line)] = "%"
    /\ \A i \in 2..(Len(line) - 1) : line[i] \in {"A", "B"}

HeaderPositions == {i \in DOMAIN db_text : IsHeaderLine(db_text[i])}

\* the lines after the header at position i, up to the next header
SectionLines(i) ==
    LET later == {j \in HeaderPositions : j > i}
        last == IF later = {} THEN Len(db_text) ELSE Min(later) - 1
    IN  SubSeq(db_text, i + 1, last)

\* a section without its trailing empty lines
WithoutTrailingEmpty(lines) ==
    LET filled == {k \in DOMAIN lines : lines[k] # <<>>}
    IN  IF filled = {} THEN <<>> ELSE SubSeq(lines, 1, Max(filled))

\* C22: from_str fails exactly when a header line occurs twice or the text
\* starts with a line that is no header; otherwise it has one section per
\* header, holding in order the lines between the header and the next one,
\* without the empty lines at its end.
C22_SectionsInOrder ==
    dpc = "parsed" =>
        LET parsed_file == Unwrap(db_file) IN
        /\ ~parsed_file.ok <=>
                \/ \E i, j \in HeaderPositions : i < j /\ db_text[i] = db_text[j]
                \/ db_text # <<>> /\ 1 \notin HeaderPositions
        /\ parsed_file.ok =>
            /\ DOMAIN parsed_file.value
                = {SubSeq(db_text[i], 2, Len(db_text[i]) - 1) : i \in HeaderPositions}
            /\ \A i \in HeaderPositions :
                    parsed_file.value[SubSeq(db_text[i], 2, Len(db_text[i]) - 1)]
                        = WithoutTrailingEmpty(SectionLines(i))

\* %A%, an empty line, x, an empty line: the section A holds the empty line
\* and x
C22_Witness ==
    /\ dpc = "parsed"
    /\ db_text = <<<<"%", "A", "%">>, <<>>, <<"x">>, <<>>>>
    /\ Unwrap(db_file) = Ok(<<"A">> :> <<<<>>, <<"x">>>>)

\* %A%, x, %A%: the second header is refused
C22_DuplicateWitness ==
    /\ dpc = "parsed"
    /\ db_text = <<<<"%", "A", "%">>, <<"x">>, <<"%", "A", "%">>>>
    /\ Unwrap(db_file) = Err("Duplicate section")

--------------------------------------------------------------------------
(* calculate_merge_loss in floating point: claim C23 (SpecLoss) *)

LossReturned == mpc = "returned"

\* the loss of merging a with b in exact arithmetic, over F64One * F64One
ExactLoss(a, b) ==
    a.size * a.stability * (F64One - b.stability)
    + b.size * b.stability * (F64One - a.stability)

\* C23: for two groups whose stabilities lie in [0, 1], the merge loss that
\* calculate_merge_loss returns is non-negative.  Both stabilities of every
\* state lie in [0, 1]; the loss is non-negative in exact arithmetic
\* (ExactLoss), and the value returned is not: a size past 2^MantissaBits is
\* rounded down by `as f64` while the sum of the two sizes is not.
C23_LossNonNegative ==
    LossReturned => Unwrap(loss_out) >= 0

\* the exact loss of every pair of groups is non-negative
C23_ExactLossNonNegative ==
    LossReturned => ExactLoss(Unwrap(loss_a), Unwrap(loss_b)) >= 0

\* the pair (2^MantissaBits + 1 bytes, 1.0) and (1 byte, 1.0) has returned
C23_FailingInput ==
    /\ LossReturned
    /\ Unwrap(loss_a) = [size |-> MaxLossSize, stability |-> F64One]
    /\ Unwrap(loss_b) = [size |-> 1, stability |-> F64One]
    /\ Unwrap(loss_out) = 0 - 2 * F64One

--------------------------------------------------------------------------
(* calculate_packing: claims C24, C26, C27 (Spec) *)

\* the set of the indices a group holds
IndexSet(g) == {g.indices[p] : p \in DOMAIN g.indices}

\* three items of one size packed into two groups, two of them of one
\* stability and the third, items[lo + 1], of a strictly lower one
ThreeItemCase(lo) ==
    /\ pc = "done" /\ Len(items) = 3 /\ max_groups = 2
    /\ \A i \in 1..3 : items[i].size = items[1].size
    /\ \A i, j \in (1..3) \ {lo + 1} : items[i].stability = items[j].stability
    /\ \A i \in (1..3) \ {lo + 1} : items[lo + 1].stability < items[i].stability

HighStability(lo) == items[CHOOSE i \in (1..3) \ {lo + 1} : TRUE].stability

\* the two items of the higher stability are one group, the third is alone
StablePairMerged(lo) ==
    /\ \E g \in DOMAIN result : IndexSet(result[g]) = (0..2) \ {lo}
    /\ \E g \in DOMAIN result : IndexSet(result[g]) = {lo}

C24_BelowHalfWitness ==
    \E lo \in 0..2 :
        /\ ThreeItemCase(lo)
        /\ 4 * HighStability(lo) = StabOne
        /\ items[lo + 1].stability = 0
        /\ ~StablePairMerged(lo)

\* the ids of the groups that are active
ActiveIds(gs) == {a \in 0..(Len(gs) - 1) : IsSome(gs[a + 1])}

\* the loss of merging the active groups a and b of gs
LossOf(gs, a, b) == CalculateMergeLoss(Unwrap(gs[a + 1]), Unwrap(gs[b + 1]))

\* the least loss among the pairs of active groups of gs
LeastLoss(gs) ==
    Min({LossOf(gs, ab[1], ab[2]) :
            ab \in {cd \in ActiveIds(gs) \X ActiveIds(gs) : cd[1] # cd[2]}})

\* the step from groups to groups' merges the groups a and b
Merges(a, b) ==
    /\ Len(groups') = Len(groups) + 1
    /\ \A i \in DOMAIN groups :
          groups'[i] = IF i \in {a + 1, b + 1} THEN None ELSE groups[i]
    /\ IsSome(groups'[Len(groups')])
    /\ IndexSet(Unwrap(groups'[Len(groups')]))
         = IndexSet(Unwrap(groups[a + 1])) \cup IndexSet(Unwrap(groups[b + 1]))

\* the candidate at k is the one the step popped
PoppedAt(k) == SubSeq(heap', 1, Len(heap) - 1) = RemoveAt(heap, k)

IsStale(c) == IsNone(groups[c.group_a_id + 1]) \/ IsNone(groups[c.group_b_id + 1])

\* the loop is about to pop a candidate
LoopIteration == pc = "loop" /\ active_count > max_groups /\ heap # <<>>

\* C26: every merge combines two groups that are both active and whose
\* merge loss is least among all pairs of groups active at that moment; an
\* iteration that popped a candidate naming a consumed group merges nothing.
C26_LeastLossMerge ==
    [][LoopIteration =>
        \/ /\ groups' = groups /\ active_count' = active_count
           /\ \E k \in DOMAIN heap : PoppedAt(k) /\ IsStale(heap[k])
        \/ /\ active_count' = active_count - 1
           /\ \E a \in ActiveIds(groups) : \E b \in ActiveIds(groups) \ {a} :
                 /\ Merges(a, b)
                 /\ LossOf(groups, a, b) = LeastLoss(groups)
                 /\ \E k \in DOMAIN heap :
                       /\ PoppedAt(k) /\ ~IsStale(heap[k])
                       /\ {heap[k].group_a_id, heap[k].group_b_id} = {a, b}]_vars

\* three items packed into one group by two merges, both stale candidates
\* of the first merge popped and discarded before the second
C26_Witness ==
    /\ pc = "done" /\ Len(items) = 3 /\ max_groups = 1
    /\ Len(groups) = 5 /\ heap = <<>>
    /\ Len(result) = 1 /\ Len(result[1].indices) = 3

\* the sum of the input sizes of the indices idx
RECURSIVE SizeSum(_)
SizeSum(idx) ==
    IF Len(idx) = 0 THEN 0 ELSE items[idx[1] + 1].size + SizeSum(Tail(idx))

\* the product of the input stabilities of the indices idx, over StabOne
RECURSIVE StabilityProduct(_)
StabilityProduct(idx) ==
    IF Len(idx) = 0 THEN StabOne
    ELSE (items[idx[1] + 1].stability * StabilityProduct(Tail(idx))) \div StabOne

\* the group holds the sum of the sizes and the product of the stabilities
SumAndProduct(g) ==
    /\ g.size = SizeSum(g.indices)
    /\ g.stability = StabilityProduct(g.indices)

RECURSIVE GroupSizes(_)
GroupSizes(gs) == IF Len(gs) = 0 THEN 0 ELSE gs[1].size + GroupSizes(Tail(gs))

InputSize == SizeSum([i \in 1..Len(items) |-> i - 1])

GroupsAreSumAndProduct ==
    /\ \A i \in DOMAIN groups : IsSome(groups[i]) => SumAndProduct(Unwrap(groups[i]))
    /\ \A g \in DOMAIN result : SumAndProduct(result[g])

\* C27 as claimed: in every state and in the output each group's size is
\* the sum of the input sizes of its indices and its stability the product
\* of their input stabilities, and the sizes of the output groups add up to
\* the sum of the input sizes.
C27_SizesPreserved ==
    /\ GroupsAreSumAndProduct
    /\ pc = "done" => GroupSizes(result) = InputSize

\* C27 amended: each group's size and stability are the sum and the
\* product over its indices in every state; the sizes of the output groups
\* add up to the sum of the input sizes when max_groups >= 1, and for
\* max_groups = 0 the output is empty.
C27_SizesPreservedUnlessZero ==
    /\ GroupsAreSumAndProduct
    /\ (pc = "done" /\ max_groups >= 1) => GroupSizes(result) = InputSize
    /\ (pc = "done" /\ max_groups = 0) => result = <<>>

\* a returned group of three items of different stabilities below 1, next
\* to no other group, and items of two sizes
C27_Witness ==
    /\ pc = "done" /\ max_groups = 1 /\ Len(items) = 3
    /\ Len(result) = 1 /\ Len(result[1].indices) = 3
    /\ Cardinality({items[i].stability : i \in 1..3}) = 3
    /\ \A i \in 1..3 : items[i].stability \in (1..(StabOne - 1))
    /\ Cardinality({items[i].size : i \in 1..3}) = 2
    /\ result[1].stability > 0

\* max_groups = 0 with items: the output is empty
C27_ZeroWitness ==
    pc = "done" /\ max_groups = 0 /\ Len(items) = 2 /\ result = <<>>

--------------------------------------------------------------------------
(* pack_components: claims C25, C30 (SpecLayers) *)

\* the entries pack_components sorted, and the groups the packer returned
SortedEntries == Entries(components, order)
PackedGroups == CalculatePacking(ItemsOf(SortedEntries), max_layers, tie)

\* the entries a group names
MembersOf(entries, group) ==
    {entries[group.indices[p] + 1] : p \in DOMAIN group.indices}

\* the files of the members, all in one map
FilesOf(members) ==
    [p \in UNION {DOMAIN e[2].files : e \in members} |->
        (CHOOSE e \in members : p \in DOMAIN e[2].files)[2].files[p]]

\* what C25 makes of a group with the given members
LayerOfGroup(layer, group, members) ==
    IF Len(group.indices) >= 2
    THEN /\ layer[1] = Join(SortedNames({e[1] : e \in members}))
         /\ layer[2].mtime_clamp = Max({e[2].mtime_clamp : e \in members})
         /\ layer[2].stability = group.stability
         /\ layer[2].files = FilesOf(members)
    ELSE \E e \in members : layer = e

\* C25: the layer of a group of two or more components is named by the
\* members' names sorted ascending and joined by single spaces, has the
\* maximum of the members' mtime_clamp values and the stability of the
\* group as the packer returned it, and holds the members' files; the layer
\* of a group of one component is that component under its own name.
C25_LayerOfGroup ==
    Packed =>
        \A entries \in {SortedEntries} :
        \A packed_groups \in {CalculatePacking(ItemsOf(entries), max_layers, tie)} :
            /\ Len(layers) = Len(packed_groups)
            /\ \A g \in DOMAIN layers :
                  \A members \in {MembersOf(entries, packed_groups[g])} :
                      LayerOfGroup(layers[g], packed_groups[g], members)

\* a layer of three components the packer did not name in ascending order,
\* with members of different clamps
C25_Witness ==
    /\ Packed
    /\ \E packed_groups \in {PackedGroups} : \E g \in DOMAIN layers :
          /\ Len(packed_groups[g].indices) = 3
          /\ packed_groups[g].indices[1] > packed_groups[g].indices[3]
          /\ Cardinality({e[2].mtime_clamp :
                            e \in MembersOf(SortedEntries, packed_groups[g])}) = 2

\* a merged layer next to a layer of one component
C25_SingleWitness ==
    /\ Packed
    /\ \E packed_groups \in {PackedGroups} : \E g, h \in DOMAIN layers :
          /\ Len(packed_groups[g].indices) = 2
          /\ Len(packed_groups[h].indices) = 1

PackReturned == lpc \in {"packed", "written"}

\* the layers whose name holds the component name nm
LayersOf(nm) ==
    {g \in DOMAIN layers : \E k \in DOMAIN Members(layers[g]) : Members(layers[g])[k] = nm}

\* every file of every component is in a layer, every component is in
\* exactly one layer, and no expect failed
NoFileLost ==
    /\ ~panicked
    /\ \A nm \in DOMAIN components : \A p \in DOMAIN components[nm].files :
          \E g \in DOMAIN layers : p \in DOMAIN layers[g][2].files
    /\ \A nm \in DOMAIN components : Cardinality(LayersOf(nm)) = 1

\* C30: for every max_layers and every component map pack_components loses
\* no file: each file path of an input component is held by an output layer,
\* each input component is consumed by exactly one output layer, and no
\* lookup of a packer index fails.
C30_NoFileLost ==
    PackReturned => NoFileLost

\* with max_layers >= 1 no file is lost
C30_NoFileLostAboveZero ==
    (PackReturned /\ max_layers >= 1) => NoFileLost

\* max_layers = 0: pack_components has returned no layer for two components
C30_FailingInput ==
    /\ PackReturned /\ max_layers = 0
    /\ Cardinality(DOMAIN components) = 2
    /\ layers = <<>> /\ ~panicked

==========================================================================
